---------------------------- MODULE Spec2Model ----------------------------
(***************************************************************************)
(* A model of the Epixable Academy LMS backend: the HTTP router and the    *)
(* auth gate of lambda_function.py, the list (pagination) and partial      *)
(* update operations of db.py, db_students.py, db_course.py and            *)
(* db_batch.py.                                                            *)
(*                                                                         *)
(* Strings that the code takes apart (paths, header values) are sequences  *)
(* of characters; a "character" here is an indivisible piece of text       *)
(* ("/", "users", "x", ...), so that stripping, splitting and matching are *)
(* computed the way the code computes them.                                *)
(***************************************************************************)
EXTENDS Integers, Sequences, FiniteSets, TLC

VARIABLES
    routes,     \* the route tables the router runs with
    event,      \* the inbound HTTP event
    resp,       \* what lambda_handler ended with
    authIn,     \* the arguments of a call of authorize
    authOut,    \* its result
    db,         \* the database: one sequence of rows per table, and the clock
    listOut,    \* the last list request and its result
    walk,       \* a client paging through the users list
    updOut,     \* the last update request, its statement and its result
    conns,      \* the database connections that are open, and how many were made
    call,       \* the handler invocation in progress, step by step
    procs,      \* two concurrent create requests, each between check and insert
    mail,       \* the email worker: its batch, its position, its results
    createOut,  \* the last recorded create request and its response
    reqOut      \* the last sign-in or delete request and its answer

vars == <<routes, event, resp, authIn, authOut, db, listOut, walk, updOut,
          conns, call, procs, mail, createOut, reqOut>>

\* Python's None, for a value that is otherwise a string.
None == "None"

\* An optional value that is otherwise structured (a dict, a record) is a
\* sequence of length 0 (None) or 1 (the value).
Nothing == <<>>

Some(x) == <<x>>

(***************************************************************************)
(* Bounds of the model.                                                    *)
(***************************************************************************)
\* Longest raw request path, in characters.
MaxPathLen == 5

\* Most rows the database holds, all tables together.
MaxRows == 4

\* Largest limit and offset a list request carries.
MaxLimit == 2

MaxOffset == 2

(***************************************************************************)
(* String helpers: str.strip("/"), str.split("/").                         *)
(***************************************************************************)
RECURSIVE LStrip(_)
LStrip(s) ==
    IF s # <<>> /\ Head(s) = "/" THEN LStrip(Tail(s)) ELSE s

RECURSIVE RStrip(_)
RStrip(s) ==
    IF s # <<>> /\ s[Len(s)] = "/" THEN RStrip(SubSeq(s, 1, Len(s) - 1)) ELSE s

\* path.strip("/")
Strip(s) ==
    RStrip(LStrip(s))

RECURSIVE Split(_)
\* path.split("/"): the pieces between separators; "" splits to [""].
Split(s) ==
    IF \A i \in 1..Len(s) : s[i] # "/"
    THEN <<s>>
    ELSE LET i == CHOOSE k \in 1..Len(s) :
                      s[k] = "/" /\ \A j \in 1..(k - 1) : s[j] # "/"
         IN  <<SubSeq(s, 1, i - 1)>> \o Split(SubSeq(s, i + 1, Len(s)))

(***************************************************************************)
(* Tokens and the auth gate.                                               *)
(***************************************************************************)
Roles == {"admin", "teacher", "student"}

\* A bearer token as jwt.decode sees it: its shape, the key that signed it,
\* its expiry and the role claim it carries.  NoToken is the empty text.
NoToken == [wellformed |-> FALSE, key |-> None, exp |-> None, role |-> None]

Tokens ==
    [wellformed : BOOLEAN, key : {"SECRET_KEY", "other"},
     exp : {"future", "past"}, role : Roles \cup {None}]

\* A header value is a string: a scheme prefix followed by token text.
\* The empty string has the empty scheme and no token.
EmptyString == [scheme |-> "", token |-> NoToken]

HeaderValues ==
    {EmptyString}
      \cup [scheme : {"Bearer ", "Basic "}, token : Tokens]
      \cup [scheme : {"Bearer "}, token : {NoToken}]

\* A decoder that does not check the expiry.
DecodeIgnoresExpiry(token) ==
    \/ ~token.wellformed
    \/ token.key # "SECRET_KEY"

\* decode_token: jwt.decode(token, SECRET_KEY, algorithms=[JWT_ALGO]) raises
\* on a malformed token, a bad signature or a passed expiry.
DecodeFails(token) ==
    \/ ~token.wellformed
    \/ token.key # "SECRET_KEY"
    \/ token.exp = "past"

\* The claims jwt.decode returns for a token it accepts.
decode_token(token) ==
    [role |-> token.role]

\* headers.get(name)
HeaderGet(headers, name) ==
    IF name \in DOMAIN headers THEN Some(headers[name]) ELSE Nothing

\* "not auth": None or the empty string.
Falsy(v) ==
    v = Nothing \/ v = Some(EmptyString)

StartsWithBearer(auth) ==
    auth[1].scheme = "Bearer "

\* auth.replace("Bearer ", ""): the text after the scheme.
TokenOf(auth) ==
    auth[1].token

authorize(headers, allowed_roles) ==
    LET a1   == HeaderGet(headers, "Authorization")
        auth == IF Falsy(a1) THEN HeaderGet(headers, "authorization") ELSE a1
    IN  IF Falsy(auth) \/ ~StartsWithBearer(auth)
        THEN [user |-> Nothing, err |-> "Unauthorized"]
        ELSE IF DecodeFails(TokenOf(auth))
        THEN [user |-> Nothing, err |-> "Invalid token"]
        ELSE IF allowed_roles # {}
                /\ decode_token(TokenOf(auth)).role \notin allowed_roles
        THEN [user |-> Nothing, err |-> "Forbidden"]
        ELSE [user |-> Some(decode_token(TokenOf(auth))), err |-> None]

(***************************************************************************)
(* Route tables.  A path is a string; a pattern is the sequence of its     *)
(* segments, each a literal or a named group (?P<name>[^/]+); every        *)
(* pattern of the tables is anchored by ^ and $.                           *)
(***************************************************************************)
Lit(x) == [k |-> "lit", v |-> x]

Cap(n) == [k |-> "cap", v |-> n]

\* A table entry; "roles": None is the empty set of roles.
Gated(h, roles) == [handler |-> h, roles |-> roles]

Route(h) == Gated(h, {})

PGated(p, h, roles) == [pattern |-> p, handler |-> h, roles |-> roles]

PRoute(p, h) == PGated(p, h, {})

FIXED_ROUTES ==
    (<<"POST", <<"login">>>> :> Route("signin_handler"))
    @@ (<<"POST", <<"users">>>> :> Route("create_user_handler"))
    @@ (<<"GET", <<"users">>>> :> Route("get_users_handler"))
    @@ (<<"GET", <<"students">>>> :> Route("get_students_handler"))
    @@ (<<"POST", <<"students">>>> :> Route("create_student_handler"))
    @@ (<<"POST", <<"courses">>>> :> Route("create_course_handler"))
    @@ (<<"GET", <<"courses">>>> :> Route("get_courses_handler"))
    @@ (<<"POST", <<"lessons">>>> :> Route("create_lesson_handler"))
    @@ (<<"POST", <<"enrollments">>>> :> Route("create_enrollment_handler"))
    @@ (<<"GET", <<"enrollments">>>> :> Route("get_enrollments_handler"))
    @@ (<<"GET", <<"batches">>>> :> Route("get_all_batches_handler"))
    @@ (<<"POST", <<"batches">>>> :> Route("create_batch_handler"))

UsersRoutes ==
    ("PUT" :> <<PRoute(<<Lit("users"), Cap("user_id")>>, "update_user_handler")>>)
    @@ ("DELETE" :> <<PRoute(<<Lit("users"), Cap("user_id")>>, "delete_user_handler")>>)

StudentsRoutes ==
    ("GET" :> <<PRoute(<<Lit("students"), Cap("student_id")>>, "get_student_handler")>>)
    @@ ("PUT" :> <<PRoute(<<Lit("students"), Cap("student_id")>>, "update_student_handler")>>)
    @@ ("DELETE" :> <<PRoute(<<Lit("students"), Cap("student_id")>>, "delete_student_handler")>>)

LessonsRoutes ==
    ("GET" :> <<PRoute(<<Lit("lessons"), Cap("lesson_id")>>, "get_lesson_handler")>>)
    @@ ("PUT" :> <<PRoute(<<Lit("lessons"), Cap("lesson_id")>>, "update_lesson_handler")>>)
    @@ ("DELETE" :> <<PRoute(<<Lit("lessons"), Cap("lesson_id")>>, "delete_lesson_handler")>>)

CoursesRoutes ==
    ("GET" :> <<
        PRoute(<<Lit("courses"), Cap("course_id")>>, "get_course_by_id"),
        PRoute(<<Lit("courses"), Cap("course_id"), Lit("details")>>,
               "get_course_by_id_handler"),
        PRoute(<<Lit("courses"), Cap("course_id"), Lit("modules"), Cap("module_id")>>,
               "get_module_with_lessons_handler"),
        PRoute(<<Lit("courses"), Cap("course_id"), Lit("batches")>>,
               "get_batches_handler")>>)
    @@ ("PUT" :> <<
        PRoute(<<Lit("courses"), Cap("course_id"), Lit("modules"), Cap("module_id")>>,
               "update_module_handler"),
        PRoute(<<Lit("courses"), Cap("course_id")>>, "update_course_handler")>>)
    @@ ("DELETE" :> <<
        PRoute(<<Lit("courses"), Cap("course_id"), Lit("modules"), Cap("module_id")>>,
               "delete_module_handler"),
        PRoute(<<Lit("courses"), Cap("course_id")>>, "delete_course_handler")>>)
    @@ ("POST" :> <<
        PRoute(<<Lit("courses"), Lit("thumbnail"), Lit("upload-url")>>,
               "generate_thumbnail_upload_url_handler"),
        PRoute(<<Lit("courses"), Lit("resource"), Lit("upload-url")>>,
               "generate_resource_upload_url_handler"),
        PRoute(<<Lit("courses"), Lit("video"), Lit("upload-url")>>,
               "generate_video_upload_url_handler"),
        PRoute(<<Lit("courses"), Cap("course_id"), Lit("modules")>>,
               "create_module_handler")>>)

EnrollmentsRoutes ==
    ("GET" :> <<
        PRoute(<<Lit("enrollments"), Lit("students")>>,
               "get_student_enrollments_handler"),
        PRoute(<<Lit("enrollments"), Cap("course_id"), Lit("student")>>,
               "get_student_course_handler")>>)
    @@ ("DELETE" :> <<
        PRoute(<<Lit("enrollments"), Cap("enrollment_id")>>,
               "delete_enrollment_handler")>>)

BatchesRoutes ==
    ("GET" :> <<
        PRoute(<<Lit("batches"), Cap("batch_id"), Lit("students")>>,
               "get_batch_students_handler")>>)
    @@ ("PUT" :> <<PRoute(<<Lit("batches"), Cap("batch_id")>>, "update_batch_handler")>>)
    @@ ("DELETE" :> <<PRoute(<<Lit("batches"), Cap("batch_id")>>, "delete_batch_handler")>>)

PARAM_ROUTES ==
    (<<"users">> :> UsersRoutes)
    @@ (<<"students">> :> StudentsRoutes)
    @@ (<<"lessons">> :> LessonsRoutes)
    @@ (<<"courses">> :> CoursesRoutes)
    @@ (<<"enrollments">> :> EnrollmentsRoutes)
    @@ (<<"batches">> :> BatchesRoutes)

\* The tables as shipped.
ShippedRoutes == [fixed |-> FIXED_ROUTES, param |-> PARAM_ROUTES]


(***************************************************************************)
(* Route tables the router is exercised with besides the shipped ones:     *)
(* a literal route that a pattern also matches, two patterns that match    *)
(* the same path (in either registration order), and routes that declare   *)
(* required roles.                                                         *)
(***************************************************************************)
TestFixed ==
    (<<"GET", <<"courses">>>> :> Gated("get_courses_handler", {"admin"}))
    @@ (<<"GET", <<"courses", "/", "details">>>> :> Route("fixed_details_handler"))

DetailsEntry ==
    PRoute(<<Lit("courses"), Cap("course_id"), Lit("details")>>,
           "get_course_by_id_handler")

SectionEntry ==
    PRoute(<<Lit("courses"), Cap("course_id"), Cap("section")>>, "section_handler")

CourseEntry ==
    PGated(<<Lit("courses"), Cap("course_id")>>, "get_course_by_id",
           {"admin", "teacher"})

TestParam(entries) ==
    <<"courses">> :>
        (("GET" :> entries)
         @@ ("PUT" :> <<PGated(<<Lit("courses"), Cap("course_id")>>,
                               "update_course_handler", {"admin"})>>))

SpecificFirstRoutes ==
    [fixed |-> TestFixed,
     param |-> TestParam(<<DetailsEntry, SectionEntry, CourseEntry>>)]

GenericFirstRoutes ==
    [fixed |-> TestFixed,
     param |-> TestParam(<<CourseEntry, SectionEntry, DetailsEntry>>)]

RouteTables == {ShippedRoutes, SpecificFirstRoutes, GenericFirstRoutes}

(***************************************************************************)
(* The router: lambda_handler of lambda_function.py.                       *)
(***************************************************************************)
\* pattern.match(path) for a pattern without its closing $: the pattern
\* matches a prefix of the path.
MatchUnanchored(pattern, path) ==
    LET segs == Split(path)
    IN  /\ Len(segs) >= Len(pattern)
        /\ \A i \in 1..Len(pattern) :
              IF pattern[i].k = "lit"
              THEN segs[i] = <<pattern[i].v>>
              ELSE segs[i] # <<>>

\* pattern.match(path): the anchored pattern matches when the path has as
\* many segments as the pattern, a literal equals its segment and a group
\* [^/]+ takes a non-empty segment.
Match(pattern, path) ==
    LET segs == Split(path)
    IN  /\ Len(segs) = Len(pattern)
        /\ \A i \in 1..Len(pattern) :
              IF pattern[i].k = "lit"
              THEN segs[i] = <<pattern[i].v>>
              ELSE segs[i] # <<>>

\* match.groupdict(): each group's name with the segment it took.
GroupDict(pattern, path) ==
    LET segs == Split(path)
        caps == {i \in 1..Len(pattern) : pattern[i].k = "cap"}
    IN  [n \in {pattern[i].v : i \in caps} |->
            segs[CHOOSE i \in caps : pattern[i].v = n]]

\* json.loads(event.get("body") or "{}") raises on text that is not JSON.
JsonLoadsFails(body) ==
    body = "garbage"

\* The parsed body: an absent or empty body is the empty object.
JsonLoads(body) ==
    IF body = "absent" THEN "object" ELSE body

\* A router that lets a matching pattern shadow the literal route.
FixedLookupAfterParam(rt, method, path) ==
    IF <<method, path>> \in DOMAIN rt.fixed
       /\ \A b \in DOMAIN rt.param : \A m \in DOMAIN rt.param[b] :
             \A i \in 1..Len(rt.param[b][m]) :
                ~(m = method /\ Match(rt.param[b][m][i].pattern, path))
    THEN Some(rt.fixed[<<method, path>>])
    ELSE Nothing

\* FIXED_ROUTES.get((method, path))
FixedLookup(rt, method, path) ==
    IF <<method, path>> \in DOMAIN rt.fixed
    THEN Some(rt.fixed[<<method, path>>])
    ELSE Nothing

\* PARAM_ROUTES.get(base_path, {}).get(method, [])
MethodRoutes(rt, base_path, method) ==
    IF base_path \in DOMAIN rt.param
    THEN IF method \in DOMAIN rt.param[base_path]
         THEN rt.param[base_path][method]
         ELSE <<>>
    ELSE <<>>

\* A loop that keeps the last matching entry instead of returning at the
\* first.
LastMatch(method_routes, path) ==
    LET hits == {i \in 1..Len(method_routes) : Match(method_routes[i].pattern, path)}
    IN  IF hits = {} THEN 0
        ELSE CHOOSE i \in hits : \A j \in hits : i >= j

\* The for loop over method_routes: the index of the entry it returns
\* from, 0 when it runs to its end.
FirstMatch(method_routes, path) ==
    LET hits == {i \in 1..Len(method_routes) : Match(method_routes[i].pattern, path)}
    IN  IF hits = {} THEN 0
        ELSE CHOOSE i \in hits : \A j \in hits : i <= j

\* What lambda_handler ends with: an exception, a response of its own
\* (response({"error": error}, status)), or the call of a handler with
\* (body, user, path_params); "consulted" tells whether the parameterized
\* table was looked at.
Raised ==
    [kind |-> "raised", status |-> 0, error |-> None, handler |-> None,
     body |-> None, user |-> Nothing, path_params |-> Nothing,
     consulted |-> FALSE]

ErrorResponse(status, error, consulted) ==
    [kind |-> "response", status |-> status, error |-> error, handler |-> None,
     body |-> None, user |-> Nothing, path_params |-> Nothing,
     consulted |-> consulted]

Dispatch(handler, body, user, path_params, consulted) ==
    [kind |-> "handler", status |-> 0, error |-> None, handler |-> handler,
     body |-> body, user |-> user, path_params |-> path_params,
     consulted |-> consulted]

\* The status the router answers a failed authorization with.
AuthFailed(err, consulted) ==
    ErrorResponse(401, err, consulted)

\* A router that tells a wrong method from an unknown path.
MethodNotAllowed ==
    ErrorResponse(405, "Method not allowed", TRUE)

RouteNotFound ==
    ErrorResponse(404, "Route not found", TRUE)

\* A matched entry: the auth gate when it declares roles, then the handler.
Invoke(entry, ev, path_params, consulted) ==
    IF entry.roles # {}
    THEN LET a == authorize(ev.headers, entry.roles)
         IN  IF a.err # None
             THEN AuthFailed(a.err, consulted)
             ELSE Dispatch(entry.handler, JsonLoads(ev.body), a.user,
                           path_params, consulted)
    ELSE Dispatch(entry.handler, JsonLoads(ev.body), Nothing, path_params,
                  consulted)

lambda_handler(rt, ev) ==
    LET method == ev.httpMethod
        path   == Strip(ev.path)
        route  == FixedLookup(rt, method, path)
    IN  IF JsonLoadsFails(ev.body)
        THEN Raised
        ELSE IF route # Nothing
        THEN Invoke(route[1], ev, Nothing, FALSE)
        ELSE LET base_path     == Split(path)[1]
                 method_routes == MethodRoutes(rt, base_path, method)
                 i             == FirstMatch(method_routes, path)
             IN  IF i # 0
                 THEN Invoke(method_routes[i], ev,
                             Some(GroupDict(method_routes[i].pattern, path)), TRUE)
                 ELSE RouteNotFound

(***************************************************************************)
(* Requests.                                                               *)
(***************************************************************************)
PathChars == {"/", "courses", "details", "x"}

RECURSIVE SeqsUpTo(_, _)
SeqsUpTo(S, n) ==
    IF n = 0 THEN {<<>>}
    ELSE LET shorter == SeqsUpTo(S, n - 1)
         IN  shorter \cup {Append(q, c) : q \in shorter, c \in S}

RawPaths == SeqsUpTo(PathChars, MaxPathLen)

Methods == {"GET", "PUT", "PATCH"}

GoodToken(role) ==
    [wellformed |-> TRUE, key |-> "SECRET_KEY", exp |-> "future", role |-> role]

Bearer(token) == [scheme |-> "Bearer ", token |-> token]

\* The header maps a routed request carries.
RouterHeaders ==
    { <<>>,
      "Authorization" :> Bearer(GoodToken("admin")),
      "authorization" :> Bearer(GoodToken("student")),
      "Authorization" :> Bearer([GoodToken("admin") EXCEPT !.exp = "past"]) }

Events ==
    [httpMethod : Methods, path : RawPaths, body : {"object", "garbage"},
     headers : RouterHeaders]

NoEvent ==
    [httpMethod |-> None, path |-> <<>>, body |-> "absent", headers |-> <<>>]

(***************************************************************************)
(* The auth gate called on its own.                                        *)
(***************************************************************************)
HeaderMaps ==
    {<<>>}
      \cup {"Authorization" :> v : v \in HeaderValues}
      \cup {"authorization" :> v : v \in HeaderValues}
      \cup {("Authorization" :> EmptyString) @@ ("authorization" :> v) :
                v \in HeaderValues}

NoAuthIn == [headers |-> <<>>, allowed_roles |-> {}]

NoAuthOut == [user |-> Nothing, err |-> "pending"]

NoResp == [Raised EXCEPT !.kind = "pending"]


(***************************************************************************)
(* Router properties.                                                      *)
(***************************************************************************)
\* The request reached routing: lambda_handler has run and the body parsed
\* (the router's contract takes a parsed body).
Routed ==
    resp.kind # "pending" /\ event.body # "garbage"

ReqPath == Strip(event.path)

ReqKey == <<event.httpMethod, ReqPath>>

\* The entries registered under (first segment, method), and those among
\* them whose pattern matches the path.
ReqList ==
    LET base == Split(ReqPath)[1]
    IN  IF base \in DOMAIN routes.param /\ event.httpMethod \in DOMAIN routes.param[base]
        THEN routes.param[base][event.httpMethod]
        ELSE <<>>

ReqHits ==
    {i \in 1..Len(ReqList) : Match(ReqList[i].pattern, ReqPath)}

\* Some pattern of the parameterized table, under any key, matches the path.
SomePatternMatches ==
    \E b \in DOMAIN routes.param : \E m \in DOMAIN routes.param[b] :
        \E i \in 1..Len(routes.param[b][m]) :
            m = event.httpMethod /\ Match(routes.param[b][m][i].pattern, ReqPath)

\* C4: when (method, normalized path) is a key of the fixed-route table, the
\* handler invoked is the fixed route's, whatever patterns also match the
\* path, and the parameterized table is not consulted.
C4_FixedRouteWins ==
    (Routed /\ ReqKey \in DOMAIN routes.fixed) =>
        /\ ~resp.consulted
        /\ resp.kind = "handler" => resp.handler = routes.fixed[ReqKey].handler
        /\ routes.fixed[ReqKey].roles = {} => resp.kind = "handler"
        /\ resp.path_params = Nothing

\* C4 happens: a literal route that a pattern also matches was dispatched.
C4_Witness ==
    /\ Routed
    /\ ReqKey \in DOMAIN routes.fixed
    /\ SomePatternMatches
    /\ resp.kind = "handler"
    /\ resp.handler = "fixed_details_handler"

\* C5: when the fixed lookup misses, the handler invoked is that of the first
\* entry, in registration order, of the (first segment, method) list whose
\* pattern matches the path, with the pattern's groups as path parameters;
\* no later matching entry is invoked.
C5_FirstMatchWins ==
    (Routed /\ ReqKey \notin DOMAIN routes.fixed /\ ReqHits # {}) =>
        LET first == CHOOSE i \in ReqHits : \A j \in ReqHits : i <= j
            entry == ReqList[first]
        IN  /\ resp.consulted
            /\ resp.kind = "handler" =>
                  /\ resp.handler = entry.handler
                  /\ resp.path_params = Some(GroupDict(entry.pattern, ReqPath))
            /\ entry.roles = {} => resp.kind = "handler"
            /\ resp.kind = "response" => resp.status # 404

\* C5 happens: two entries with different handlers matched the path and the
\* earlier one was invoked.
C5_Witness ==
    /\ Routed
    /\ ReqKey \notin DOMAIN routes.fixed
    /\ \E i, j \in ReqHits : i < j /\ ReqList[i].handler # ReqList[j].handler
    /\ resp.kind = "handler"
    /\ resp.handler = "section_handler"
    /\ resp.path_params = Some([course_id |-> <<"x">>, section |-> <<"details">>])

\* C6: a request that matches no fixed route and no pattern is answered 404
\* {"error": "Route not found"} and no handler is invoked; so is a method
\* with no list under a known first segment, and the root path.
C6_NotFound ==
    (Routed /\ ReqKey \notin DOMAIN routes.fixed /\ ReqHits = {}) =>
        /\ resp.kind = "response"
        /\ resp.status = 404
        /\ resp.error = "Route not found"
        /\ resp.handler = None

\* C6 happens: a method with no list under a known first segment got 404,
\* on a path a pattern of another method matches.
C6_Witness ==
    /\ Routed
    /\ event.httpMethod = "PATCH"
    /\ Split(ReqPath)[1] \in DOMAIN routes.param
    /\ \E m \in DOMAIN routes.param[Split(ReqPath)[1]] :
          \E i \in 1..Len(routes.param[Split(ReqPath)[1]][m]) :
              Match(routes.param[Split(ReqPath)[1]][m][i].pattern, ReqPath)
    /\ resp.status = 404

\* C6, the root path: "/" normalizes to the empty string and is answered 404.
C6_RootWitness ==
    /\ Routed
    /\ event.path = <<"/">>
    /\ ReqPath = <<>>
    /\ resp.status = 404

\* The entry the router selected for the request, if any.
ReqEntry ==
    IF ReqKey \in DOMAIN routes.fixed
    THEN Some(routes.fixed[ReqKey])
    ELSE IF ReqHits # {}
    THEN Some(ReqList[CHOOSE i \in ReqHits : \A j \in ReqHits : i <= j])
    ELSE Nothing

NoTokenSent ==
    event.headers = <<>>

\* The request carries a token that verifies; its role.
ValidTokenRole ==
    LET hs == {event.headers[n] : n \in DOMAIN event.headers}
    IN  {h.token.role : h \in {x \in hs : /\ x.scheme = "Bearer "
                                          /\ x.token.wellformed
                                          /\ x.token.key = "SECRET_KEY"
                                          /\ x.token.exp = "future"}}

\* C7: on a route that declares required roles the handler is not invoked
\* when the auth gate fails: no token is answered 401, a valid token whose
\* role is not among the route's roles is answered 403.
C7_AuthStatus ==
    (Routed /\ ReqEntry # Nothing /\ ReqEntry[1].roles # {}) =>
        /\ NoTokenSent => (resp.kind = "response" /\ resp.status = 401)
        /\ (ValidTokenRole # {} /\ ValidTokenRole \cap ReqEntry[1].roles = {}) =>
              (resp.kind = "response" /\ resp.status = 403)

(***************************************************************************)
(* Auth gate properties.                                                   *)
(***************************************************************************)
\* The header value authorize looks at: Authorization, or authorization
\* when the former is absent or empty.
Presented ==
    LET h == authIn.headers
    IN  IF "Authorization" \in DOMAIN h /\ h["Authorization"] # EmptyString
        THEN Some(h["Authorization"])
        ELSE IF "authorization" \in DOMAIN h /\ h["authorization"] # EmptyString
        THEN Some(h["authorization"])
        ELSE Nothing

\* C8: authorize returns exactly one of a principal and an error:
\* "Unauthorized" without a header starting with "Bearer "; "Invalid token"
\* alike for a malformed, a wrong-key and an expired token; "Forbidden" when
\* allowed_roles is non-empty and lacks the decoded role; otherwise the
\* decoded claims and no error.
C8_Authorize ==
    authOut.err # "pending" =>
        /\ (authOut.user = Nothing) # (authOut.err = None)
        /\ IF Presented = Nothing \/ Presented[1].scheme # "Bearer "
           THEN authOut.err = "Unauthorized"
           ELSE LET t == Presented[1].token
                IN  IF ~t.wellformed \/ t.key # "SECRET_KEY" \/ t.exp = "past"
                    THEN authOut.err = "Invalid token"
                    ELSE IF authIn.allowed_roles # {}
                            /\ t.role \notin authIn.allowed_roles
                    THEN authOut.err = "Forbidden"
                    ELSE /\ authOut.err = None
                         /\ authOut.user = Some([role |-> t.role])

\* C8 happens: an expired token, otherwise good and of an allowed role, was
\* turned away as "Invalid token".
C8_Witness ==
    /\ authOut.err = "Invalid token"
    /\ Presented # Nothing
    /\ Presented[1].token.wellformed
    /\ Presented[1].token.key = "SECRET_KEY"
    /\ Presented[1].token.exp = "past"
    /\ Presented[1].token.role \in authIn.allowed_roles


(***************************************************************************)
(* Strings of the data layer.  A value is an atomic string; the string     *)
(* functions the code applies are given by what they return on the values  *)
(* of the model.                                                           *)
(***************************************************************************)
\* str.lower()
Lower(v) ==
    CASE v = " Ann@X " -> " ann@x "
      [] v = "Ann@X"   -> "ann@x"
      [] v = "Ann"     -> "ann"
      [] v = "Bob"     -> "bob"
      [] v = "Cy"      -> "cy"
      [] v = "An"      -> "an"
      [] v = "AN"      -> "an"
      [] v = "Morning" -> "morning"
      [] v = "Evening" -> "evening"
      [] v = "Algebra" -> "algebra"
      [] v = "Teacher" -> "teacher"
      [] v = "Draft"   -> "draft"
      [] v = "Forgot_Password" -> "forgot_password"
      [] OTHER         -> v

\* str.upper()
Upper(v) ==
    CASE v = "Draft" -> "DRAFT"
      [] v = "draft" -> "DRAFT"
      [] v = "insert" -> "INSERT"
      [] OTHER       -> v

\* str.strip()
StripS(v) ==
    CASE v = " Ann@X " -> "Ann@X"
      [] v = " ann@x " -> "ann@x"
      [] v = " Ann "   -> "Ann"
      [] v = " "       -> ""
      [] OTHER         -> v

\* The lower-case search terms of the model that occur in a lower-case text.
TermsIn(text) ==
    CASE text = "ann@x"   -> {"", "an", "x"}
      [] text = "bob@x"   -> {"", "bo", "x"}
      [] text = "cy@x"    -> {"", "x"}
      [] text = "ann"     -> {"", "an"}
      [] text = "bob"     -> {"", "bo"}
      [] text = "cy"      -> {""}
      [] text = "morning" -> {"", "ing"}
      [] text = "evening" -> {"", "ing"}
      [] text = "algebra" -> {"", "al"}
      [] OTHER            -> {""}

\* column ILIKE '%search%': NULL matches nothing.
ILike(text, search) ==
    text # None /\ Lower(search) \in TermsIn(Lower(text))

\* "if search:" and the like: None and "" are falsy.
Truthy(v) ==
    v # None /\ v # ""

(***************************************************************************)
(* The database.  Each table is the sequence of its rows in insertion      *)
(* order; db.clock is the instant the next statement runs at.              *)
(***************************************************************************)
EmptyDb ==
    [users |-> <<>>, students |-> <<>>, courses |-> <<>>, batches |-> <<>>,
     enrollments |-> <<>>, modules |-> <<>>, clock |-> 1]

RowCount(d) ==
    Len(d.users) + Len(d.students) + Len(d.courses) + Len(d.batches)
      + Len(d.enrollments)

\* _now_iso()
NowIso(d) ==
    d.clock

Tick(d) ==
    [d EXCEPT !.clock = @ + 1]

Range(q) == {q[i] : i \in 1..Len(q)}

\* The orders ORDER BY may return the rows in, keys[i] being the sort key
\* of rows[i]: every arrangement that is sorted by the key; rows with equal
\* keys come in any order.
Orderings(rows, keys, desc) ==
    LET n == Len(rows)
        perms == {f \in [1..n -> 1..n] : \A i, j \in 1..n : i # j => f[i] # f[j]}
        sorted(f) == \A i \in 1..(n - 1) :
                        IF desc THEN keys[f[i]] >= keys[f[i + 1]]
                        ELSE keys[f[i]] <= keys[f[i + 1]]
    IN  {[i \in 1..n |-> rows[f[i]]] : f \in {g \in perms : sorted(g)}}

\* OFFSET taken as a number of pages.
PageByNumber(rows, limit, offset) ==
    SubSeq(rows, offset * limit + 1,
           IF offset * limit + limit < Len(rows) THEN offset * limit + limit
           ELSE Len(rows))

\* LIMIT limit OFFSET offset
Page(rows, limit, offset) ==
    SubSeq(rows, offset + 1, IF offset + limit < Len(rows) THEN offset + limit
                             ELSE Len(rows))

\* The first of the ids that no row of the table uses.
FreshId(ids, rows, col) ==
    ids[CHOOSE i \in 1..Len(ids) :
            /\ \A r \in Range(rows) : r[col] # ids[i]
            /\ \A j \in 1..(i - 1) : \E r \in Range(rows) : r[col] = ids[j]]

UserIds == <<"US1", "US2", "US3", "US4", "US5", "US6">>

StudentIds == <<"STU1", "STU2", "STU3", "STU4", "STU5", "STU6">>

CourseIds == <<"c1", "c2", "c3", "c4", "c5", "c6">>

BatchIds == <<"b1", "b2", "b3", "b4", "b5", "b6">>

EnrollmentIds == <<"e1", "e2", "e3", "e4", "e5", "e6">>


(***************************************************************************)
(* JSON values of a request body, tagged with their type.                  *)
(***************************************************************************)
JAbsent == [t |-> "absent", n |-> 0, s |-> None]

JNull == [t |-> "null", n |-> 0, s |-> None]

JInt(n) == [t |-> "int", n |-> n, s |-> None]

JStr(v) == [t |-> "str", n |-> 0, s |-> v]

\* key in body
Has(body, k) ==
    k \in DOMAIN body /\ body[k].t # "absent"

\* body.get(k, default)
BodyGet(body, k, default) ==
    IF Has(body, k) THEN body[k] ELSE default

\* The Python string of a JSON value; None for null.
PyStr(v) ==
    IF v.t = "str" THEN v.s ELSE None

\* int(v): a ValueError for text that is no number, a TypeError for None.
IntRaises(v) ==
    IF v.t = "int" THEN None
    ELSE IF v.t = "str" THEN (IF v.s \in {"0", "1", "2"} THEN None ELSE "ValueError")
    ELSE "TypeError"

IntOf(v) ==
    IF v.t = "int" THEN v.n
    ELSE IF v.s = "1" THEN 1 ELSE IF v.s = "2" THEN 2 ELSE 0

\* What a handler returns: response(body, status), and the database after.
Out(d, status, error) ==
    [db |-> d, status |-> status, error |-> error]

(***************************************************************************)
(* Creating rows: db.py, db_students.py, db_course.py, db_batch.py and     *)
(* their handlers.                                                         *)
(***************************************************************************)
\* db_user_exists
\* secrets.token_urlsafe(10): the password generated for a new user, a
\* different one for every user.
token_urlsafe ==
    ("US1" :> "pw1") @@ ("US2" :> "pw2") @@ ("US3" :> "pw3") @@
    ("US4" :> "pw4") @@ ("US5" :> "pw5") @@ ("US6" :> "pw6")

\* pbkdf2_hmac of a password under the salt drawn for it; the stored text is
\* base64(salt + digest), so it determines the salt and the digest.
pbkdf2_hmac ==
    ("pw1" :> "h1") @@ ("pw2" :> "h2") @@ ("pw3" :> "h3") @@
    ("pw4" :> "h4") @@ ("pw5" :> "h5") @@ ("pw6" :> "h6") @@ ("bad" :> "h7")

hash_password(password) ==
    pbkdf2_hmac[password]

\* verify_password, were it to accept every password
verify_password_any(password, stored) ==
    TRUE

\* verify_password: the digest of the password under the stored salt is
\* the stored digest; text that does not decode verifies nothing.
verify_password(password, stored) ==
    \E p \in DOMAIN pbkdf2_hmac :
        /\ pbkdf2_hmac[p] = stored
        /\ p = password

db_user_exists(d, email) ==
    \E r \in Range(d.users) : r.email = StripS(Lower(email))

\* db_create_user; the random user_id is one no row uses.
db_create_user(d, email, full_name, role, status) ==
    LET user_id == FreshId(UserIds, d.users, "user_id")
        password == token_urlsafe[user_id]
        row == [user_id |-> user_id,
                email |-> StripS(Lower(email)), full_name |-> full_name,
                role |-> role, status |-> status,
                password_hash |-> hash_password(password),
                created_at |-> NowIso(d), updated_at |-> NowIso(d)]
    IN  Tick([d EXCEPT !.users = Append(@, row)])

create_user_handler(d, body) ==
    LET je == BodyGet(body, "email", JStr(""))
        jr == BodyGet(body, "role", JStr(""))
        jn == BodyGet(body, "full_name", JStr(""))
        js == BodyGet(body, "status", JStr("Active"))
        email     == StripS(Lower(je.s))
        role      == StripS(Lower(jr.s))
        full_name == StripS(jn.s)
        status    == StripS(js.s)
    IN  IF \E v \in {je, jr, jn, js} : v.t # "str"
        THEN Out(d, 500, "Internal server error")
        ELSE IF ~Truthy(email) THEN Out(d, 400, "Email is required")
        ELSE IF role \notin {"admin", "teacher", "student"}
        THEN Out(d, 400, "Invalid role")
        ELSE IF status \notin {"Active", "Inactive"}
        THEN Out(d, 400, "Invalid status")
        ELSE IF db_user_exists(d, email)
        THEN Out(d, 409, "User already exists")
        ELSE Out(db_create_user(d, email, full_name, role, status), 201, None)

\* db_student_exists
db_student_exists(d, email) ==
    \E r \in Range(d.students) : r.email = StripS(Lower(email))

\* db_create_student
db_create_student(d, f) ==
    LET row == [student_id |-> FreshId(StudentIds, d.students, "student_id"),
                first_name |-> f.first_name, last_name |-> f.last_name,
                date_of_birth |-> f.date_of_birth, gender |-> f.gender,
                profile_photo_url |-> f.profile_photo_url,
                email |-> StripS(Lower(f.email)),
                mobile_number |-> f.mobile_number,
                emergency_contact |-> f.emergency_contact,
                residential_address |-> f.residential_address,
                current_status |-> f.current_status,
                highest_qualification |-> f.highest_qualification,
                id_proof_type |-> f.id_proof_type, id_number |-> f.id_number,
                lead_source |-> f.lead_source,
                created_at |-> NowIso(d), updated_at |-> NowIso(d)]
    IN  Tick([d EXCEPT !.students = Append(@, row)])

create_student_handler(d, body) ==
    LET jf == BodyGet(body, "firstName", JStr(""))
        jl == BodyGet(body, "lastName", JStr(""))
        je == BodyGet(body, "email", JStr(""))
        jm == BodyGet(body, "mobileNumber", JStr(""))
        first_name    == StripS(jf.s)
        last_name     == StripS(jl.s)
        email         == StripS(Lower(je.s))
        mobile_number == StripS(jm.s)
        opt(k) == PyStr(BodyGet(body, k, JNull))
        def(k, v) == PyStr(BodyGet(body, k, JStr(v)))
    IN  IF \E v \in {jf, jl, je, jm} : v.t # "str"
        THEN Out(d, 500, "Internal server error")
        ELSE IF \E v \in {first_name, last_name, email, mobile_number} : ~Truthy(v)
        THEN Out(d, 400, "First name, last name, email, and mobile number are required")
        ELSE IF db_student_exists(d, email)
        THEN Out(d, 409, "Student with this email already exists")
        ELSE Out(db_create_student(d,
                    [first_name |-> first_name, last_name |-> last_name,
                     email |-> email, mobile_number |-> mobile_number,
                     date_of_birth |-> opt("dateOfBirth"), gender |-> opt("gender"),
                     profile_photo_url |-> def("profilePhotoUrl", " "),
                     emergency_contact |-> opt("emergencyContact"),
                     residential_address |-> opt("residentialAddress"),
                     current_status |-> def("currentStatus", "Student"),
                     highest_qualification |-> opt("highestQualification"),
                     id_proof_type |-> def("idProofType", "Aadhaar_Card"),
                     id_number |-> opt("idNumber"),
                     lead_source |-> def("leadSource", "Instagram_Ad")]),
                 201, None)

\* db_create_course; the uuid4 id is one no row uses.  learning_points is
\* kept as the number of points.
db_create_course(d, title, description, thumbnail_url, status, learning_points) ==
    LET row == [id |-> FreshId(CourseIds, d.courses, "id"), title |-> title,
                description |-> description, thumbnail_url |-> thumbnail_url,
                status |-> status, learning_points |-> learning_points,
                created_at |-> NowIso(d), updated_at |-> NowIso(d)]
    IN  Tick([d EXCEPT !.courses = Append(@, row)])

create_course_handler(d, body) ==
    LET jt == BodyGet(body, "title", JStr(""))
        jd == BodyGet(body, "description", JStr(""))
        js == BodyGet(body, "status", JStr("DRAFT"))
        ju == BodyGet(body, "thumbnailUrl", JStr(""))
        title  == StripS(jt.s)
        status == Upper(js.s)
    IN  IF \E v \in {jt, jd, js, ju} : v.t # "str"
        THEN Out(d, 500, "Internal server error")
        ELSE IF ~Truthy(title) THEN Out(d, 400, "Course title is required")
        ELSE IF status \notin {"DRAFT", "PUBLISHED", "ARCHIVED"}
        THEN Out(d, 400, "Invalid status")
        ELSE Out(db_create_course(d, title, StripS(jd.s), StripS(ju.s), status, "[]"),
                 201, None)

\* db_create_batch; batch_id is the table's own default.
db_create_batch(d, f) ==
    LET row == [batch_id |-> FreshId(BatchIds, d.batches, "batch_id"),
                course_id |-> f.course_id, batch_name |-> f.batch_name,
                batch_code |-> f.batch_code, start_date |-> f.start_date,
                end_date |-> f.end_date, schedule_type |-> f.schedule_type,
                days_of_week |-> f.days_of_week, time_slot |-> f.time_slot,
                instructor_id |-> f.instructor_id,
                max_capacity |-> f.max_capacity, status |-> f.status,
                created_at |-> NowIso(d), updated_at |-> NowIso(d)]
    IN  Tick([d EXCEPT !.batches = Append(@, row)])

\* start_date is a day number.
create_batch_handler(d, body) ==
    LET course_id  == PyStr(BodyGet(body, "course_id", JNull))
        batch_name == PyStr(BodyGet(body, "batch_name", JNull))
        batch_code == PyStr(BodyGet(body, "batch_code", JNull))
        start_date == BodyGet(body, "start_date", JNull)
    IN  IF ~Truthy(course_id) \/ ~Truthy(batch_name) \/ ~Truthy(batch_code)
           \/ ~(start_date.t = "int" /\ start_date.n # 0)
        THEN Out(d, 400, "course_id, batch_name, batch_code, and start_date are required")
        ELSE Out(db_create_batch(d,
                    [course_id |-> course_id, batch_name |-> batch_name,
                     batch_code |-> batch_code, start_date |-> start_date.n,
                     end_date |-> PyStr(BodyGet(body, "end_date", JNull)),
                     schedule_type |-> PyStr(BodyGet(body, "schedule_type", JStr("weekday"))),
                     days_of_week |-> PyStr(BodyGet(body, "days_of_week", JNull)),
                     time_slot |-> PyStr(BodyGet(body, "time_slot", JNull)),
                     instructor_id |-> PyStr(BodyGet(body, "instructor_id", JNull)),
                     max_capacity |-> BodyGet(body, "max_capacity", JInt(30)).n,
                     status |-> PyStr(BodyGet(body, "status", JStr("upcoming")))]),
                 201, None)

\* The day of utcnow(): the requests of the model fall on one day.
Today == "20260101"

\* The existence check of db_create_enrollment.
EnrollmentExists(d, student_id, course_id, batch_id) ==
    \E r \in Range(d.enrollments) :
        r.student_id = student_id /\ r.course_id = course_id /\ r.batch_id = batch_id

\* An insert that the storage refuses when the triple is stored already.
db_create_enrollment_unique(d, student_id, course_id, batch_id, start_date, suffix) ==
    LET row == [enrollment_id |-> FreshId(EnrollmentIds, d.enrollments, "enrollment_id"),
                enrollment_number |-> <<"ENR", Today, suffix>>,
                student_id |-> student_id, course_id |-> course_id,
                batch_id |-> batch_id, start_date |-> start_date,
                status |-> "active",
                created_at |-> NowIso(d), updated_at |-> NowIso(d)]
    IN  IF EnrollmentExists(d, student_id, course_id, batch_id)
        THEN d
        ELSE Tick([d EXCEPT !.enrollments = Append(@, row)])

\* The insert of db_create_enrollment.  The enrollment number is ENR, the
\* day and a random three-digit suffix.
db_create_enrollment(d, student_id, course_id, batch_id, start_date, suffix) ==
    LET row == [enrollment_id |-> FreshId(EnrollmentIds, d.enrollments, "enrollment_id"),
                enrollment_number |-> <<"ENR", Today, suffix>>,
                student_id |-> student_id, course_id |-> course_id,
                batch_id |-> batch_id, start_date |-> start_date,
                status |-> "active",
                created_at |-> NowIso(d), updated_at |-> NowIso(d)]
    IN  Tick([d EXCEPT !.enrollments = Append(@, row)])

create_enrollment_handler(d, body, suffix) ==
    LET student_id == PyStr(BodyGet(body, "student_id", JNull))
        course_id  == PyStr(BodyGet(body, "course_id", JNull))
        batch_id   == PyStr(BodyGet(body, "batch_id", JNull))
        start_date == BodyGet(body, "start_date", JNull)
    IN  IF ~Truthy(student_id) \/ ~Truthy(course_id) \/ ~Truthy(batch_id)
           \/ ~(start_date.t = "int" /\ start_date.n # 0)
        THEN Out(d, 400, "student_id, course_id, batch_id, and start_date are required")
        ELSE IF EnrollmentExists(d, student_id, course_id, batch_id)
        THEN Out(d, 400, "Student is already enrolled in this batch.")
        ELSE Out(db_create_enrollment(d, student_id, course_id, batch_id,
                                      start_date.n, suffix),
                 201, None)

(***************************************************************************)
(* Listing: the seven list functions of db.py, db_students.py,             *)
(* db_course.py and db_batch.py.  Each runs an item query and a count      *)
(* query; a function yields the set of results the two queries can give,   *)
(* one for each order ORDER BY allows.  The items of a result are the      *)
(* primary keys of the rows returned.                                      *)
(***************************************************************************)
\* The arguments a list function is called with; None where it has none.
Args(limit, offset, search, status, course_id, batch_id) ==
    [limit |-> limit, offset |-> offset, search |-> search, status |-> status,
     course_id |-> course_id, batch_id |-> batch_id]

NoArgs == Args(0, 0, None, None, None, None)

NoResult ==
    [kind |-> "none", items |-> <<>>, total |-> 0, limit |-> 0, offset |-> 0,
     hasNext |-> FALSE, next_offset |-> Nothing]

\* A statement the database rejects: the function raises.
DbError == [NoResult EXCEPT !.kind = "raised"]

\* hasNext and next_offset computed with <= in place of <.
PageResultInclusive(items, total, limit, offset) ==
    [kind |-> "ok", items |-> items, total |-> total, limit |-> limit,
     offset |-> offset,
     hasNext |-> (offset + limit) <= total,
     next_offset |-> IF (offset + limit) <= total THEN Some(offset + limit)
                     ELSE Nothing]

\* The dictionary every list function returns.
PageResult(items, total, limit, offset) ==
    [kind |-> "ok", items |-> items, total |-> total, limit |-> limit,
     offset |-> offset,
     hasNext |-> (offset + limit) < total,
     next_offset |-> IF (offset + limit) < total THEN Some(offset + limit)
                     ELSE Nothing]

\* The values of one column, row by row.
Col(rows, c) ==
    [i \in 1..Len(rows) |-> rows[i][c]]

\* The two queries of a list function: the item query returns the rows of
\* itemRows in one of the orders of ORDER BY orderBy, cut by LIMIT and OFFSET;
\* the count query counts countRows.  PostgreSQL rejects a negative LIMIT
\* or OFFSET.
RunList(itemRows, countRows, orderBy, desc, pk, limit, offset) ==
    IF limit < 0 \/ offset < 0 THEN {DbError}
    ELSE {PageResult(Col(Page(o, limit, offset), pk), Len(countRows), limit, offset) :
            o \in Orderings(itemRows, Col(itemRows, orderBy), desc)}

\* The collation order of the first names of the model.
NameOrder(v) ==
    CASE v = "Ann" -> 1
      [] v = "Bob" -> 2
      [] OTHER     -> 3

\* users: WHERE email ILIKE %s OR full_name ILIKE %s
UsersWhere(d, a) ==
    SelectSeq(d.users,
              LAMBDA r : Truthy(a.search) =>
                            (ILike(r.email, a.search) \/ ILike(r.full_name, a.search)))

db_list_users(d, a) ==
    RunList(UsersWhere(d, a), UsersWhere(d, a), "created_at", TRUE, "user_id",
            a.limit, a.offset)

\* students: the search over four columns AND current_status = %s
StudentsWhere(d, a) ==
    SelectSeq(d.students,
              LAMBDA r :
                /\ Truthy(a.search) =>
                      \/ ILike(r.email, a.search)
                      \/ ILike(r.first_name, a.search)
                      \/ ILike(r.last_name, a.search)
                      \/ ILike(r.mobile_number, a.search)
                /\ Truthy(a.status) => r.current_status = a.status)

db_list_students(d, a) ==
    RunList(StudentsWhere(d, a), StudentsWhere(d, a), "created_at", TRUE,
            "student_id", a.limit, a.offset)

\* courses: c.title ILIKE %s AND c.status = %s.  The three LEFT JOINs of
\* the item query are on subqueries grouped by course_id: each adds columns
\* to a course row and neither drops nor repeats it.
CoursesWhere(d, a) ==
    SelectSeq(d.courses,
              LAMBDA r :
                /\ Truthy(a.search) => ILike(r.title, a.search)
                /\ Truthy(a.status) => r.status = a.status)

db_list_courses(d, a) ==
    RunList(CoursesWhere(d, a), CoursesWhere(d, a), "created_at", TRUE, "id",
            a.limit, a.offset)

\* the batches of a course: course_id = %s AND batch_name ILIKE %s
BatchesWhere(d, a) ==
    SelectSeq(d.batches,
              LAMBDA r :
                /\ r.course_id = a.course_id
                /\ Truthy(a.search) => ILike(r.batch_name, a.search))

db_list_batches(d, a) ==
    RunList(BatchesWhere(d, a), BatchesWhere(d, a), "start_date", FALSE,
            "batch_id", a.limit, a.offset)

\* all batches: WHERE 1=1 and the three optional filters on b.
AllBatchesWhere(d, a) ==
    SelectSeq(d.batches,
              LAMBDA r :
                /\ Truthy(a.course_id) => r.course_id = a.course_id
                /\ Truthy(a.status) => r.status = a.status
                /\ Truthy(a.search) =>
                      (ILike(r.batch_name, a.search) \/ ILike(r.batch_code, a.search)))

\* FROM batches b JOIN courses c ON c.id = b.course_id
\*                JOIN users u ON u.user_id = b.instructor_id
\* The ids are keys, so a batch joins with at most one course and one user;
\* a NULL instructor_id joins with none.
AllBatchesJoin(d, rows) ==
    SelectSeq(rows,
              LAMBDA r :
                /\ \E c \in Range(d.courses) : c.id = r.course_id
                /\ r.instructor_id # None
                /\ \E u \in Range(d.users) : u.user_id = r.instructor_id)

\* The count query is SELECT COUNT(*) FROM batches b {where}: no joins.
db_list_all_batches(d, a) ==
    RunList(AllBatchesJoin(d, AllBatchesWhere(d, a)), AllBatchesWhere(d, a),
            "start_date", TRUE, "batch_id", a.limit, a.offset)

\* FROM enrollments e JOIN students s ON s.student_id = e.student_id
\* WHERE e.batch_id = %s, as the student rows, one for each enrollment.
BatchStudentsRows(d, a) ==
    LET es == SelectSeq(d.enrollments,
                        LAMBDA e :
                          /\ e.batch_id = a.batch_id
                          /\ \E s \in Range(d.students) : s.student_id = e.student_id)
    IN  [i \in 1..Len(es) |->
            CHOOSE s \in Range(d.students) : s.student_id = es[i].student_id]

\* A search adds s.full_name ILIKE %s; students has no such column and
\* the statement fails.  ORDER BY s.first_name ASC.
db_list_batch_students(d, a) ==
    IF Truthy(a.search) \/ a.limit < 0 \/ a.offset < 0 THEN {DbError}
    ELSE LET rows == BatchStudentsRows(d, a)
             names == [i \in 1..Len(rows) |-> NameOrder(rows[i].first_name)]
         IN  {PageResult(Col(Page(o, a.limit, a.offset), "student_id"), Len(rows),
                         a.limit, a.offset) : o \in Orderings(rows, names, FALSE)}

\* FROM enrollments e JOIN students s JOIN courses c JOIN batches b
\* WHERE e.status = %s
EnrollmentsRows(d, a) ==
    SelectSeq(d.enrollments,
              LAMBDA e :
                /\ \E s \in Range(d.students) : s.student_id = e.student_id
                /\ \E c \in Range(d.courses) : c.id = e.course_id
                /\ \E b \in Range(d.batches) : b.batch_id = e.batch_id
                /\ Truthy(a.status) => e.status = a.status)

\* A search adds s.name ILIKE %s; students has no such column and the
\* statement fails.
db_list_enrollments(d, a) ==
    IF Truthy(a.search) THEN {DbError}
    ELSE RunList(EnrollmentsRows(d, a), EnrollmentsRows(d, a), "created_at", TRUE,
                 "enrollment_id", a.limit, a.offset)

(***************************************************************************)
(* The list handlers of lambda_function.py.  A handler yields the set of   *)
(* responses it can give.                                                  *)
(***************************************************************************)
DefaultLimit == 25

\* limit = int(body.get("limit", 25)); offset = int(body.get("offset", 0))
Paging(body) ==
    LET jl == BodyGet(body, "limit", JInt(DefaultLimit))
        jo == BodyGet(body, "offset", JInt(0))
    IN  [raises |-> IF IntRaises(jl) # None THEN IntRaises(jl) ELSE IntRaises(jo),
         limit |-> IntOf(jl), offset |-> IntOf(jo)]

\* a or b
Or(a, b) ==
    IF Truthy(a) THEN a ELSE b

\* body.get(k)
Get(body, k) ==
    PyStr(BodyGet(body, k, JNull))

\* body.get(k, "").strip()
GetStripped(body, k) ==
    StripS(PyStr(BodyGet(body, k, JStr(""))))

ListResp(status, error, op, args, result) ==
    [status |-> status, error |-> error, op |-> op, args |-> args,
     result |-> result, invalid |-> None]

NoList == ListResp(0, None, "pending", NoArgs, NoResult)

\* The handler's try block around one list call: valueStatus is what a
\* ValueError of int() is answered with.  "invalid" records the exception
\* int() raised on limit or offset, if any.
ListCall(op, paging, args, results, valueStatus) ==
    IF paging.raises = "ValueError" /\ valueStatus = 400
    THEN {[ListResp(400, "Invalid pagination parameters", op, NoArgs, NoResult)
              EXCEPT !.invalid = paging.raises]}
    ELSE IF paging.raises # None
    THEN {[ListResp(500, "Internal server error", op, NoArgs, NoResult)
              EXCEPT !.invalid = paging.raises]}
    ELSE {IF r.kind = "raised"
          THEN ListResp(500, "Internal server error", op, args, r)
          ELSE ListResp(200, None, op, args, r) : r \in results}

get_users_handler(d, body, path_params, search_value) ==
    LET p == Paging(body)
        a == Args(p.limit, p.offset, Or(search_value, ""), None, None, None)
    IN  ListCall("users", p, a, db_list_users(d, a), 400)

get_students_handler(d, body, path_params, search_value) ==
    LET p == Paging(body)
        a == Args(p.limit, p.offset, Or(search_value, Get(body, "search")),
                  Get(body, "status"), None, None)
    IN  ListCall("students", p, a, db_list_students(d, a), 400)

get_courses_handler(d, body, path_params, search_value) ==
    LET p == Paging(body)
        search == IF Truthy(search_value) THEN StripS(search_value)
                  ELSE IF Truthy(Get(body, "search")) THEN GetStripped(body, "search")
                  ELSE None
        a == Args(p.limit, p.offset, search, Get(body, "status"), None, None)
    IN  ListCall("courses", p, a, db_list_courses(d, a), 400)

get_batches_handler(d, body, path_params, search_value) ==
    IF "course_id" \notin DOMAIN path_params
    THEN {ListResp(400, "course_id is required in path", "batches", NoArgs, NoResult)}
    ELSE LET p == Paging(body)
             search == IF Truthy(Get(body, "search")) THEN GetStripped(body, "search")
                       ELSE None
             a == Args(p.limit, p.offset, search, None, path_params["course_id"], None)
         IN  ListCall("batches", p, a, db_list_batches(d, a), 400)

get_enrollments_handler(d, body, path_params, search_value) ==
    LET p == Paging(body)
        a == Args(p.limit, p.offset,
                  IF Truthy(search_value) THEN search_value
                  ELSE GetStripped(body, "search"),
                  IF Truthy(search_value) THEN search_value
                  ELSE GetStripped(body, "status"),
                  None, None)
    IN  ListCall("enrollments", p, a, db_list_enrollments(d, a), 500)

get_all_batches_handler(d, body, path_params, search_value) ==
    LET p == Paging(body)
        a == Args(p.limit, p.offset, Or(search_value, Get(body, "search")),
                  Get(body, "status"), Get(body, "course_id"), None)
    IN  ListCall("all_batches", p, a, db_list_all_batches(d, a), 500)

get_batch_students_handler(d, body, path_params, search_value) ==
    IF "batch_id" \notin DOMAIN path_params
    THEN {ListResp(400, "batch_id is required", "batch_students", NoArgs, NoResult)}
    ELSE LET p == Paging(body)
             a == Args(p.limit, p.offset, Or(search_value, Get(body, "search")),
                       None, None, path_params["batch_id"])
         IN  ListCall("batch_students", p, a, db_list_batch_students(d, a), 500)

(***************************************************************************)
(* Partial updates: db_update_user, db_update_student, db_update_course.   *)
(* The updates dictionary is the sequence of its <<key, value>> pairs in   *)
(* insertion order; an UPDATE statement is its table, the columns of its   *)
(* SET clause in order, the column of its WHERE clause and its positional  *)
(* parameters, each a JSON value.                                          *)
(***************************************************************************)
Keys(updates) ==
    [i \in 1..Len(updates) |-> updates[i][1]]

Values(updates) ==
    [i \in 1..Len(updates) |-> updates[i][2]]

\* The statement built with the primary key placed before the timestamp.
BuildUpdateKeyFirst(table, pkcol, pk, updates, now) ==
    [table |-> table,
     set |-> Keys(updates) \o <<"updated_at">>,
     where |-> <<pkcol>>,
     params |-> Values(updates) \o <<JStr(pk), JInt(now)>>]

\* set_parts and params of the loop over updates.items(), then _now_iso()
\* and the primary key; SET {set_parts}, updated_at = %s WHERE pk = %s.
BuildUpdate(table, pkcol, pk, updates, now) ==
    [table |-> table,
     set |-> Keys(updates) \o <<"updated_at">>,
     where |-> <<pkcol>>,
     params |-> Values(updates) \o <<JInt(now), JStr(pk)>>]

\* The columns of the tables, from the INSERT statements of the create
\* functions.
Columns(table) ==
    CASE table = "users" ->
            {"user_id", "email", "full_name", "role", "status", "password_hash",
             "created_at", "updated_at"}
      [] table = "students" ->
            {"student_id", "first_name", "last_name", "date_of_birth", "gender",
             "profile_photo_url", "email", "mobile_number", "emergency_contact",
             "residential_address", "current_status", "highest_qualification",
             "id_proof_type", "id_number", "lead_source", "created_at",
             "updated_at"}
      [] table = "courses" ->
            {"id", "title", "description", "thumbnail_url", "status",
             "learning_points", "created_at", "updated_at"}
      [] table = "batches" ->
            {"batch_id", "course_id", "batch_name", "batch_code", "start_date",
             "end_date", "schedule_type", "days_of_week", "time_slot",
             "instructor_id", "max_capacity", "status", "created_at",
             "updated_at"}

\* PostgreSQL rejects a SET clause that names a column the table lacks or
\* names one column twice.
Rejected(stmt) ==
    \/ \E i \in 1..Len(stmt.set) : stmt.set[i] \notin Columns(stmt.table)
    \/ \E i, j \in 1..Len(stmt.set) : i # j /\ stmt.set[i] = stmt.set[j]

\* The value a parameter puts in a column.
Stored(v) ==
    IF v.t = "int" THEN v.n ELSE PyStr(v)

\* The row after the assignments of the SET clause.
Assign(row, stmt) ==
    [c \in DOMAIN row |->
        IF \E i \in 1..Len(stmt.set) : stmt.set[i] = c
        THEN Stored(stmt.params[CHOOSE i \in 1..Len(stmt.set) : stmt.set[i] = c])
        ELSE row[c]]

\* The row satisfies the WHERE clause: each of its columns equals its
\* parameter, the last parameters of the statement.
Satisfies(row, stmt) ==
    \A i \in 1..Len(stmt.where) :
        row[stmt.where[i]]
          = PyStr(stmt.params[Len(stmt.params) - Len(stmt.where) + i])

\* RETURNING gives a row: some row satisfies the WHERE clause.
Matches(d, stmt) ==
    \E r \in Range(d[stmt.table]) : Satisfies(r, stmt)

\* cur.execute of the UPDATE and conn.commit(): the table afterwards.
ExecuteUpdate(d, stmt) ==
    [d EXCEPT ![stmt.table] =
        [i \in 1..Len(@) |->
            IF Satisfies(@[i], stmt) THEN Assign(@[i], stmt) ELSE @[i]]]

\* What an update function comes to: whether it called pg_connect, the
\* statement it ran, if any, the database afterwards, and whether it
\* returned a row, None, or raised.
DalOut(d, connected, stmt, returned) ==
    [db |-> d, connected |-> connected, stmt |-> stmt, returned |-> returned]

\* pg_connect, cur.execute, fetchone and commit of an update function.
RunStatement(d, stmt) ==
    IF Rejected(stmt) THEN DalOut(Tick(d), TRUE, Some(stmt), "raised")
    ELSE IF Matches(d, stmt)
    THEN DalOut(Tick(ExecuteUpdate(d, stmt)), TRUE, Some(stmt), "row")
    ELSE DalOut(Tick(d), TRUE, Some(stmt), "None")

\* The body shared by the three update functions.
RunUpdate(d, table, pkcol, pk, updates) ==
    IF updates = <<>> THEN DalOut(d, FALSE, Nothing, "None")
    ELSE RunStatement(d, BuildUpdate(table, pkcol, pk, updates, NowIso(d)))

db_update_user(d, user_id, updates) ==
    RunUpdate(d, "users", "user_id", user_id, updates)

db_update_student(d, student_id, updates) ==
    RunUpdate(d, "students", "student_id", student_id, updates)

db_update_course(d, course_id, updates) ==
    RunUpdate(d, "courses", "id", course_id, updates)

(***************************************************************************)
(* The update handlers of lambda_function.py.                              *)
(***************************************************************************)
\* What an update handler comes to: its response and its call of the
\* update function, if it made one.
UpdResp(d, status, error, updates, called, dal) ==
    [db |-> d, status |-> status, error |-> error, updates |-> updates,
     called |-> called, connected |-> dal.connected, stmt |-> dal.stmt,
     returned |-> dal.returned]

NoCall(d) == DalOut(d, FALSE, Nothing, "None")

\* path_params.get(k)
PathGet(path_params, k) ==
    IF k \in DOMAIN path_params THEN path_params[k] ELSE None

\* <<pair>> when the body has the key.
Given(body, k, pair) ==
    IF Has(body, k) THEN <<pair>> ELSE <<>>

\* The end of each update handler: the call and the answer to it.
Answer(d, dal, updates, notFound) ==
    IF dal.returned = "raised"
    THEN UpdResp(dal.db, 500, "Internal server error", updates, TRUE, dal)
    ELSE IF dal.returned = "None"
    THEN UpdResp(dal.db, 404, notFound, updates, TRUE, dal)
    ELSE UpdResp(dal.db, 200, None, updates, TRUE, dal)

\* The fields update_user_handler copies from the body.
UserFields == <<"email", "full_name", "role", "status">>

update_user_handler(d, body, path_params) ==
    LET user_id   == PathGet(path_params, "user_id")
        str(k)    == BodyGet(body, k, JStr("")).s
        email     == StripS(Lower(str("email")))
        full_name == StripS(str("full_name"))
        role      == StripS(Lower(str("role")))
        status    == StripS(str("status"))
        notStr(k) == Has(body, k) /\ body[k].t # "str"
        updates   == Given(body, "email", <<"email", JStr(email)>>)
                       \o Given(body, "full_name", <<"full_name", JStr(full_name)>>)
                       \o Given(body, "role", <<"role", JStr(role)>>)
                       \o Given(body, "status", <<"status", JStr(status)>>)
        fail(status_, error) == UpdResp(d, status_, error, <<>>, FALSE, NoCall(d))
    IN  IF ~Truthy(user_id) THEN fail(400, "User ID is required")
        ELSE IF notStr("email") THEN fail(500, "Internal server error")
        ELSE IF Has(body, "email") /\ ~Truthy(email)
        THEN fail(400, "Email cannot be empty")
        ELSE IF notStr("full_name") THEN fail(500, "Internal server error")
        ELSE IF Has(body, "full_name") /\ ~Truthy(full_name)
        THEN fail(400, "Full name cannot be empty")
        ELSE IF notStr("role") THEN fail(500, "Internal server error")
        ELSE IF Has(body, "role") /\ role \notin {"admin", "teacher", "student"}
        THEN fail(400, "Invalid role")
        ELSE IF notStr("status") THEN fail(500, "Internal server error")
        ELSE IF Has(body, "status") /\ status \notin {"Active", "Inactive"}
        THEN fail(400, "Invalid status")
        ELSE IF updates = <<>> THEN fail(400, "No valid fields to update")
        ELSE Answer(d, db_update_user(d, user_id, updates), updates, "User not found")

\* field_mapping of update_student_handler, in its order.
field_mapping ==
    << <<"firstName", "first_name">>, <<"lastName", "last_name">>,
       <<"dateOfBirth", "date_of_birth">>, <<"gender", "gender">>,
       <<"profilePhotoUrl", "profile_photo_url">>, <<"email", "email">>,
       <<"mobileNumber", "mobile_number">>,
       <<"emergencyContact", "emergency_contact">>,
       <<"residentialAddress", "residential_address">>,
       <<"currentStatus", "current_status">>,
       <<"highestQualification", "highest_qualification">>,
       <<"idProofType", "id_proof_type">>, <<"idNumber", "id_number">>,
       <<"leadSource", "lead_source">> >>

\* Strings are stripped, the email lower-cased too; other values are kept.
StudentValue(db_key, value) ==
    IF value.t # "str" THEN value
    ELSE IF db_key = "email" THEN JStr(Lower(StripS(value.s)))
    ELSE JStr(StripS(value.s))

RECURSIVE MappedUpdates(_, _)
MappedUpdates(body, i) ==
    IF i > Len(field_mapping) THEN <<>>
    ELSE Given(body, field_mapping[i][1],
               <<field_mapping[i][2],
                 StudentValue(field_mapping[i][2],
                              BodyGet(body, field_mapping[i][1], JNull))>>)
           \o MappedUpdates(body, i + 1)

update_student_handler(d, body, path_params) ==
    LET student_id == PathGet(path_params, "student_id")
        updates    == MappedUpdates(body, 1)
        fail(status_, error) == UpdResp(d, status_, error, <<>>, FALSE, NoCall(d))
    IN  IF ~Truthy(student_id) THEN fail(400, "Student ID is required")
        ELSE IF updates = <<>> THEN fail(400, "No valid fields to update")
        ELSE IF \E i \in 1..Len(updates) :
                    /\ updates[i][1] = "current_status"
                    /\ \/ updates[i][2].t # "str"
                       \/ updates[i][2].s \notin
                            {"Student", "Working Professional", "Freelancer", "Unemployed"}
        THEN fail(400, "Invalid status")
        ELSE Answer(d, db_update_student(d, student_id, updates), updates,
                    "Student not found")

\* The columns update_course_handler assigns.
CourseFields ==
    <<"title", "description", "status", "thumbnail_url", "learning_points">>

\* learningPoints: the list is kept as its text; a value that is no list
\* becomes the empty list.
update_course_handler(d, body, path_params) ==
    LET course_id == PathGet(path_params, "course_id")
        str(k)    == BodyGet(body, k, JStr("")).s
        notStr(k) == Has(body, k) /\ body[k].t # "str"
        status    == Upper(str("status"))
        updates   == Given(body, "title", <<"title", JStr(StripS(str("title")))>>)
                       \o Given(body, "description",
                                <<"description", JStr(StripS(str("description")))>>)
                       \o Given(body, "status", <<"status", JStr(status)>>)
                       \o Given(body, "thumbnailUrl",
                                <<"thumbnail_url", JStr(StripS(str("thumbnailUrl")))>>)
                       \o Given(body, "learningPoints", <<"learning_points", JStr("[]")>>)
        fail(status_, error) == UpdResp(d, status_, error, <<>>, FALSE, NoCall(d))
    IN  IF ~Truthy(course_id) THEN fail(400, "Course ID is required")
        ELSE IF notStr("title") \/ notStr("description")
        THEN fail(500, "Internal server error")
        ELSE IF notStr("status") THEN fail(500, "Internal server error")
        ELSE IF Has(body, "status") /\ status \notin {"DRAFT", "PUBLISHED", "ARCHIVED"}
        THEN fail(400, "Invalid status")
        ELSE IF notStr("thumbnailUrl") THEN fail(500, "Internal server error")
        ELSE IF updates = <<>> THEN fail(400, "No valid fields to update")
        ELSE Answer(d, db_update_course(d, course_id, updates), updates,
                    "Course not found")

(***************************************************************************)
(* Updating a batch: db_update_batch of db_batch.py and                    *)
(* update_batch_handler.                                                   *)
(***************************************************************************)
\* The optional parameters of db_update_batch, in the order of its tests;
\* update_batch_handler requires each of them in the body.
BatchFields ==
    <<"batch_name", "batch_code", "start_date", "end_date", "schedule_type",
      "days_of_week", "time_slot", "instructor_id", "max_capacity", "status">>

\* fields and values: one "column = %s" for each parameter that is not None.
RECURSIVE NotNoneFields(_, _)
NotNoneFields(f, i) ==
    IF i > Len(BatchFields) THEN <<>>
    ELSE (IF f[BatchFields[i]].t = "null" THEN <<>>
          ELSE << <<BatchFields[i], f[BatchFields[i]]>> >>)
           \o NotNoneFields(f, i + 1)

\* UPDATE batches SET {fields}, updated_at = %s
\* WHERE batch_id = %s AND course_id = %s
BuildBatchUpdate(course_id, batch_id, updates, now) ==
    [table |-> "batches",
     set |-> Keys(updates) \o <<"updated_at">>,
     where |-> <<"batch_id", "course_id">>,
     params |-> Values(updates) \o <<JInt(now), JStr(batch_id), course_id>>]

\* f gives each optional parameter its JSON value, null for None.
db_update_batch(d, course_id, batch_id, f) ==
    LET updates == NotNoneFields(f, 1)
    IN  IF updates = <<>> THEN DalOut(d, FALSE, Nothing, "None")
        ELSE RunStatement(d, BuildBatchUpdate(course_id, batch_id, updates, NowIso(d)))

update_batch_handler(d, body, path_params) ==
    LET fail(status_, error) == UpdResp(d, status_, error, <<>>, FALSE, NoCall(d))
    IN  IF path_params = <<>> \/ ~Has(body, "course_id")
           \/ "batch_id" \notin DOMAIN path_params
        THEN fail(400, "course_id and batch_id are required in path")
        ELSE IF \E i \in 1..Len(BatchFields) : ~Has(body, BatchFields[i])
        THEN fail(400, "Missing fields")
        ELSE Answer(d, db_update_batch(d, body["course_id"], path_params["batch_id"],
                                       [k \in Range(BatchFields) |-> body[k]]),
                    NotNoneFields(body, 1), "Batch not found")

(***************************************************************************)
(* Request bodies of the model.                                            *)
(***************************************************************************)
UserBodies ==
    { [email |-> JStr(" Ann@X "), full_name |-> JStr("Ann"), role |-> JStr("Teacher")],
      [email |-> JStr("bob@x"), full_name |-> JStr("Bob"), role |-> JStr("admin")],
      [email |-> JStr("cy@x"), full_name |-> JStr("Cy"), role |-> JStr("student")] }

StudentBodies ==
    { [firstName |-> JStr("Bob"), lastName |-> JStr("Cy"), email |-> JStr("bob@x"),
       mobileNumber |-> JStr("555")],
      [firstName |-> JStr(" Ann "), lastName |-> JStr("Cy"), email |-> JStr("Ann@X"),
       mobileNumber |-> JStr("555"), currentStatus |-> JStr("Working")] }

CourseBodies ==
    { [title |-> JStr("Algebra"), status |-> JStr("Draft")],
      [title |-> JStr("Cy"), status |-> JStr("PUBLISHED")] }

\* Batches of courses that exist, taught by a user that exists or by nobody.
BatchBodies(d) ==
    { [course_id |-> JStr(c.id), batch_name |-> JStr(n), batch_code |-> JStr("B1"),
       start_date |-> JInt(1), instructor_id |-> i] :
        c \in Range(d.courses), n \in {"Morning", "Evening"},
        i \in {JAbsent} \cup {JStr(u.user_id) : u \in Range(d.users)} }

\* Enrollments of students that exist in batches that exist.
EnrollmentBodies(d) ==
    { [student_id |-> JStr(st.student_id), course_id |-> JStr(b.course_id),
       batch_id |-> JStr(b.batch_id), start_date |-> JInt(1)] :
        st \in Range(d.students), b \in Range(d.batches) }

\* bodies whose limit or offset is not an integer
InvalidPagingBodies ==
    { [limit |-> JStr("abc"), offset |-> JAbsent, search |-> JAbsent,
       status |-> JAbsent, course_id |-> JAbsent],
      [limit |-> JInt(1), offset |-> JStr("abc"), search |-> JAbsent,
       status |-> JAbsent, course_id |-> JAbsent],
      [limit |-> JNull, offset |-> JAbsent, search |-> JAbsent,
       status |-> JAbsent, course_id |-> JAbsent] }

\* The bodies of list requests.
LimitValues == {JAbsent} \cup {JInt(n) : n \in 0..MaxLimit}

OffsetValues == {JAbsent} \cup {JInt(n) : n \in 1..MaxOffset}

ListBodies ==
    [limit : LimitValues, offset : OffsetValues, search : {JAbsent},
     status : {JAbsent}, course_id : {JAbsent}]
      \cup [limit : {JInt(1)}, offset : {JAbsent}, search : {JStr("AN")},
            status : {JAbsent}, course_id : {JAbsent}]
      \cup [limit : {JInt(1)}, offset : {JAbsent}, search : {JAbsent},
            status : {JStr("Working"), JStr("PUBLISHED"), JStr("upcoming"), JStr("active")},
            course_id : {JAbsent}]
      \cup [limit : {JInt(1)}, offset : {JAbsent}, search : {JAbsent},
            status : {JAbsent}, course_id : {JStr(CourseIds[1])}]
      \cup InvalidPagingBodies

SearchValues == {None, "x"}

(***************************************************************************)
(* Building the database: the create handlers, table by table.             *)
(***************************************************************************)
\* the two clients whose create requests run concurrently
Requesters == {"r1", "r2"}

\* neither has sent its request
NoProcs ==
    [p \in Requesters |-> [op |-> None, pc |-> "idle", body |-> <<>>, suffix |-> 0, status |-> 0]]

\* no create request was recorded yet
NoCreate == [kind |-> "pending", table |-> None, body |-> <<>>, status |-> 0,
             error |-> None, before |-> EmptyDb]

Building ==
    /\ listOut.op = "pending" /\ walk.state = "idle" /\ updOut.kind = "pending"
    /\ createOut.kind = "pending" /\ reqOut.kind = "pending"
    /\ \A p \in Requesters : procs[p].pc = "idle"

CanCreate(laterTables) ==
    /\ Building
    /\ RowCount(db) < MaxRows
    /\ \A t \in laterTables : db[t] = <<>>

CreateUser ==
    /\ CanCreate({"students", "courses", "batches", "enrollments"})
    /\ \E body \in UserBodies : db' = create_user_handler(db, body).db
    /\ UNCHANGED <<routes, event, resp, authIn, authOut, listOut, walk, updOut, conns, call, procs, mail, createOut, reqOut>>

CreateStudent ==
    /\ CanCreate({"courses", "batches", "enrollments"})
    /\ \E body \in StudentBodies : db' = create_student_handler(db, body).db
    /\ UNCHANGED <<routes, event, resp, authIn, authOut, listOut, walk, updOut, conns, call, procs, mail, createOut, reqOut>>

CreateCourse ==
    /\ CanCreate({"batches", "enrollments"})
    /\ \E body \in CourseBodies : db' = create_course_handler(db, body).db
    /\ UNCHANGED <<routes, event, resp, authIn, authOut, listOut, walk, updOut, conns, call, procs, mail, createOut, reqOut>>

CreateBatch ==
    /\ CanCreate({"enrollments"})
    /\ \E body \in BatchBodies(db) : db' = create_batch_handler(db, body).db
    /\ UNCHANGED <<routes, event, resp, authIn, authOut, listOut, walk, updOut, conns, call, procs, mail, createOut, reqOut>>

CreateEnrollment ==
    /\ CanCreate({})
    /\ \E body \in EnrollmentBodies(db) :
          db' = create_enrollment_handler(db, body, 1).db
    /\ UNCHANGED <<routes, event, resp, authIn, authOut, listOut, walk, updOut, conns, call, procs, mail, createOut, reqOut>>

(***************************************************************************)
(* One list request against the database built.                            *)
(***************************************************************************)
ListUsers ==
    /\ Building
    /\ \E body \in ListBodies, sv \in SearchValues :
          listOut' \in get_users_handler(db, body, <<>>, sv)
    /\ UNCHANGED <<routes, event, resp, authIn, authOut, db, walk, updOut, conns, call, procs, mail, createOut, reqOut>>

ListStudents ==
    /\ Building
    /\ \E body \in ListBodies, sv \in SearchValues :
          listOut' \in get_students_handler(db, body, <<>>, sv)
    /\ UNCHANGED <<routes, event, resp, authIn, authOut, db, walk, updOut, conns, call, procs, mail, createOut, reqOut>>

ListCourses ==
    /\ Building
    /\ \E body \in ListBodies, sv \in SearchValues :
          listOut' \in get_courses_handler(db, body, <<>>, sv)
    /\ UNCHANGED <<routes, event, resp, authIn, authOut, db, walk, updOut, conns, call, procs, mail, createOut, reqOut>>

ListBatches ==
    /\ Building
    /\ \E body \in ListBodies, c \in {CourseIds[1], CourseIds[2]} :
          listOut' \in get_batches_handler(db, body, "course_id" :> c, None)
    /\ UNCHANGED <<routes, event, resp, authIn, authOut, db, walk, updOut, conns, call, procs, mail, createOut, reqOut>>

ListAllBatches ==
    /\ Building
    /\ \E body \in ListBodies, sv \in SearchValues :
          listOut' \in get_all_batches_handler(db, body, <<>>, sv)
    /\ UNCHANGED <<routes, event, resp, authIn, authOut, db, walk, updOut, conns, call, procs, mail, createOut, reqOut>>

ListBatchStudents ==
    /\ Building
    /\ \E body \in ListBodies, sv \in SearchValues :
          listOut' \in get_batch_students_handler(db, body, "batch_id" :> BatchIds[1], sv)
    /\ UNCHANGED <<routes, event, resp, authIn, authOut, db, walk, updOut, conns, call, procs, mail, createOut, reqOut>>

ListEnrollments ==
    /\ Building
    /\ \E body \in ListBodies, sv \in SearchValues :
          listOut' \in get_enrollments_handler(db, body, <<>>, sv)
    /\ UNCHANGED <<routes, event, resp, authIn, authOut, db, walk, updOut, conns, call, procs, mail, createOut, reqOut>>

(***************************************************************************)
(* Walking the pages of the user list: a client starts at offset 0 and     *)
(* asks for the page at each next_offset it is given, until it is given    *)
(* none.  No row is created while it walks.                                *)
(***************************************************************************)
NoWalk ==
    [state |-> "idle", limit |-> 0, search |-> None, offset |-> 0,
     received |-> <<>>, pages |-> <<>>, last |-> NoResult]

StartWalk ==
    /\ Building
    /\ \E limit \in 1..MaxLimit, sv \in SearchValues \cup {"AN"} :
          walk' = [NoWalk EXCEPT !.state = "walking", !.limit = limit, !.search = sv]
    /\ UNCHANGED <<routes, event, resp, authIn, authOut, db, listOut, updOut, conns, call, procs, mail, createOut, reqOut>>

WalkStep ==
    /\ walk.state = "walking"
    /\ \E out \in get_users_handler(db, [limit |-> JInt(walk.limit),
                                         offset |-> JInt(walk.offset)],
                                    <<>>, walk.search) :
          walk' = IF out.status # 200 THEN [walk EXCEPT !.state = "failed"]
                  ELSE [walk EXCEPT
                          !.received = @ \o out.result.items,
                          !.pages = Append(@, Len(out.result.items)),
                          !.last = out.result,
                          !.offset = IF out.result.next_offset = Nothing THEN @
                                     ELSE out.result.next_offset[1],
                          !.state = IF out.result.next_offset = Nothing THEN "done"
                                    ELSE "walking"]
    /\ UNCHANGED <<routes, event, resp, authIn, authOut, db, listOut, updOut, conns, call, procs, mail, createOut, reqOut>>

(***************************************************************************)
(* One partial update against the database built: a call of an update      *)
(* function with a mapping of the caller's, or a request to a handler.     *)
(***************************************************************************)
MaxKeys == 2

NoUpd ==
    [kind |-> "pending", via |-> None, table |-> None, pk |-> None,
     body |-> <<>>, updates |-> <<>>, before |-> EmptyDb, connected |-> FALSE,
     stmt |-> Nothing, returned |-> "None", status |-> 0, error |-> None]

\* The record of an update: what was asked, of the function or of the
\* handler, the database before, and what the update function did.
Updated(via, table, pk, body, updates, dal, status, error) ==
    [kind |-> "done", via |-> via, table |-> table, pk |-> pk, body |-> body,
     updates |-> updates, before |-> db, connected |-> dal.connected,
     stmt |-> dal.stmt, returned |-> dal.returned, status |-> status,
     error |-> error]

\* The keys of the mappings the update functions are called with.
DirectKeys(table) ==
    CASE table = "users"    -> {"email", "full_name", "password_hash", "updated_at"}
      [] table = "students" -> {"first_name", "email", "student_id", "nosuch"}
      [] table = "courses"  -> {"title", "status", "created_at", "nosuch"}

DirectUpdates(table) ==
    { [i \in 1..Len(ks) |-> <<ks[i], JStr("v")>>] :
        ks \in {q \in SeqsUpTo(DirectKeys(table), MaxKeys) :
                    \A i, j \in 1..Len(q) : i # j => q[i] # q[j]} }

PkInputs(table) ==
    CASE table = "users"    -> {UserIds[1], UserIds[2]}
      [] table = "students" -> {StudentIds[1], StudentIds[2]}
      [] table = "courses"  -> {CourseIds[1], CourseIds[2]}

CallUpdate(table, pk, updates) ==
    CASE table = "users"    -> db_update_user(db, pk, updates)
      [] table = "students" -> db_update_student(db, pk, updates)
      [] table = "courses"  -> db_update_course(db, pk, updates)

DirectUpdate ==
    /\ Building
    /\ \E table \in {"users", "students", "courses"} :
         \E pk \in PkInputs(table), updates \in DirectUpdates(table) :
            LET out == CallUpdate(table, pk, updates)
            IN  /\ db' = out.db
                /\ updOut' = Updated("function", table, pk, <<>>, updates, out,
                                     0, None)
    /\ UNCHANGED <<routes, event, resp, authIn, authOut, listOut, walk, conns, call, procs, mail, createOut, reqOut>>

UserUpdateBodies ==
    { <<>>,
      [email |-> JStr(" Ann@X ")],
      [full_name |-> JStr("Cy"), status |-> JStr("Inactive")],
      [role |-> JStr("Teacher"), password_hash |-> JStr("v")],
      [password_hash |-> JStr("v")],
      [role |-> JStr("Draft")] }

StudentUpdateBodies ==
    { <<>>,
      [firstName |-> JStr(" Ann "), email |-> JStr("Ann@X")],
      [currentStatus |-> JStr("Working")],
      [gender |-> JNull, student_id |-> JStr("STU9")] }

CourseUpdateBodies ==
    { <<>>,
      [title |-> JStr("Cy"), status |-> JStr("Draft")],
      [status |-> JStr("upcoming")],
      [thumbnailUrl |-> JStr(" "), id |-> JStr("c9")] }

UpdateUser ==
    /\ Building
    /\ \E body \in UserUpdateBodies, pk \in PkInputs("users") :
          LET out == update_user_handler(db, body, "user_id" :> pk)
          IN  /\ db' = out.db
              /\ updOut' = Updated("handler", "users", pk, body, out.updates, out,
                                   out.status, out.error)
    /\ UNCHANGED <<routes, event, resp, authIn, authOut, listOut, walk, conns, call, procs, mail, createOut, reqOut>>

UpdateStudent ==
    /\ Building
    /\ \E body \in StudentUpdateBodies, pk \in PkInputs("students") :
          LET out == update_student_handler(db, body, "student_id" :> pk)
          IN  /\ db' = out.db
              /\ updOut' = Updated("handler", "students", pk, body, out.updates, out,
                                   out.status, out.error)
    /\ UNCHANGED <<routes, event, resp, authIn, authOut, listOut, walk, conns, call, procs, mail, createOut, reqOut>>

UpdateCourse ==
    /\ Building
    /\ \E body \in CourseUpdateBodies, pk \in PkInputs("courses") :
          LET out == update_course_handler(db, body, "course_id" :> pk)
          IN  /\ db' = out.db
              /\ updOut' = Updated("handler", "courses", pk, body, out.updates, out,
                                   out.status, out.error)
    /\ UNCHANGED <<routes, event, resp, authIn, authOut, listOut, walk, conns, call, procs, mail, createOut, reqOut>>

\* Bodies of PUT batch requests: every field null, one field given, and
\* a body that lacks fields.
NullBatchBody(course_id) ==
    [k \in Range(BatchFields) \cup {"course_id"} |->
        IF k = "course_id" THEN JStr(course_id) ELSE JNull]

BatchUpdateBodies ==
    {NullBatchBody(c) : c \in {CourseIds[1], CourseIds[2]}}
      \cup {[NullBatchBody(CourseIds[1]) EXCEPT !["batch_name"] = JStr("Evening")],
            [NullBatchBody(CourseIds[1]) EXCEPT !["max_capacity"] = JInt(1),
                                                !["status"] = JStr("active")],
            [course_id |-> JStr(CourseIds[1]), batch_name |-> JStr("Evening")]}

UpdateBatch ==
    /\ Building
    /\ \E body \in BatchUpdateBodies, pk \in {BatchIds[1], BatchIds[2]} :
          LET out == update_batch_handler(db, body, "batch_id" :> pk)
          IN  /\ db' = out.db
              /\ updOut' = Updated("handler", "batches", pk, body, out.updates, out,
                                   out.status, out.error)
    /\ UNCHANGED <<routes, event, resp, authIn, authOut, listOut, walk, conns, call, procs, mail, createOut, reqOut>>

(***************************************************************************)
(* The specifications of the data layer.                                   *)
(***************************************************************************)
\* no connection was made; no invocation is in progress
NoConns == [open |-> {}, made |-> 0]

NoCall0 == [kind |-> None, pc |-> "idle", conn |-> 0, sql |-> "", fault |-> "none",
            status |-> 0, error |-> None, tries |-> 0, n |-> 0]


\* the worker has not been invoked
NoMail ==
    [state |-> "idle", records |-> <<>>, pos |-> 0, results |-> <<>>, processed |-> 0,
     sent |-> <<>>, passes |-> <<>>,
     resp |-> [statusCode |-> 0, keys |-> {}, message |-> None, records_received |-> 0,
               processed_count |-> 0, results |-> <<>>]]

\* No sign-in or delete request was made yet.
NoReq == [kind |-> "pending"]

NoRoutes == [fixed |-> <<>>, param |-> <<>>]

DataInit ==
    /\ routes = NoRoutes
    /\ event = NoEvent
    /\ resp = NoResp
    /\ authIn = NoAuthIn
    /\ authOut = NoAuthOut
    /\ db = EmptyDb
    /\ listOut = NoList
    /\ walk = NoWalk
    /\ updOut = NoUpd
    /\ conns = NoConns
    /\ call = NoCall0
    /\ procs = NoProcs
    /\ mail = NoMail
    /\ createOut = NoCreate
    /\ reqOut = NoReq

ListNext ==
    \/ CreateUser
    \/ CreateStudent
    \/ CreateCourse
    \/ CreateBatch
    \/ CreateEnrollment
    \/ ListUsers
    \/ ListStudents
    \/ ListCourses
    \/ ListBatches
    \/ ListAllBatches
    \/ ListBatchStudents
    \/ ListEnrollments

ListSpec == DataInit /\ [][ListNext]_vars

WalkNext ==
    \/ CreateUser
    \/ StartWalk
    \/ WalkStep

\* The client goes on asking until it is given no next_offset.
WalkSpec == DataInit /\ [][WalkNext]_vars /\ WF_vars(WalkStep)

UpdateNext ==
    \/ CreateUser
    \/ CreateStudent
    \/ CreateCourse
    \/ CreateBatch
    \/ DirectUpdate
    \/ UpdateUser
    \/ UpdateStudent
    \/ UpdateCourse
    \/ UpdateBatch

UpdateSpec == DataInit /\ [][UpdateNext]_vars

(***************************************************************************)
(* Listing properties.                                                     *)
(***************************************************************************)
\* A list request was answered with a page.
Listed == listOut.op # "pending" /\ listOut.status = 200

\* C1: in the result of every list operation hasNext is
\* (offset + limit < total), and next_offset is offset + limit when hasNext
\* is true and absent otherwise; limit and offset are those of the call.
C1_PaginationArithmetic ==
    Listed =>
        LET r == listOut.result
        IN  /\ r.limit = listOut.args.limit /\ r.offset = listOut.args.offset
            /\ r.limit >= 0 /\ r.offset >= 0 /\ r.total >= 0
            /\ r.hasNext = (r.offset + r.limit < r.total)
            /\ r.hasNext => r.next_offset = Some(r.offset + r.limit)
            /\ ~r.hasNext => r.next_offset = Nothing

\* C29: for every list result computed from a non-negative limit
\* and offset (limit 0 included), a next_offset that is present is strictly
\* greater than the request's offset, so a client that keeps following
\* next_offset over an unchanging table makes progress towards a page with
\* hasNext = false.
C29_NextOffsetAdvances ==
    (Listed /\ listOut.result.next_offset # Nothing) =>
        listOut.result.next_offset[1] > listOut.args.offset

\* C1 happens: a list of enrollments stops exactly at the last row
\* (offset + limit = total), so there is no next page.
C1_Witness ==
    /\ Listed
    /\ listOut.op = "enrollments"
    /\ listOut.result.total = 1
    /\ listOut.result.offset + listOut.result.limit = listOut.result.total
    /\ ~listOut.result.hasNext
    /\ listOut.result.next_offset = Nothing

\* The rows the item query of a list operation returns once LIMIT and
\* OFFSET are removed.
ItemQueryRows(op, d, a) ==
    CASE op = "users"          -> UsersWhere(d, a)
      [] op = "students"       -> StudentsWhere(d, a)
      [] op = "courses"        -> CoursesWhere(d, a)
      [] op = "batches"        -> BatchesWhere(d, a)
      [] op = "all_batches"    -> AllBatchesJoin(d, AllBatchesWhere(d, a))
      [] op = "batch_students" -> BatchStudentsRows(d, a)
      [] op = "enrollments"    -> EnrollmentsRows(d, a)

\* C2: the total a list operation returns is the number of rows its item
\* query returns with LIMIT and OFFSET removed.
C2_TotalCountsItemQuery ==
    Listed =>
        listOut.result.total = Len(ItemQueryRows(listOut.op, db, listOut.args))

(***************************************************************************)
(* Properties of the walk over the user list.                              *)
(***************************************************************************)
\* The users that match the search of the walk.
WalkMatching ==
    {r \in Range(db.users) :
        Truthy(walk.search) =>
            (ILike(r.email, walk.search) \/ ILike(r.full_name, walk.search))}

\* The user with an id the walk received.
UserOf(id) ==
    CHOOSE r \in Range(db.users) : r.user_id = id

\* What a finished walk has received: every matching row once, newest
\* first, in pages of at most limit rows, the last page without a next.
WalkComplete ==
    /\ {walk.received[i] : i \in 1..Len(walk.received)}
          = {r.user_id : r \in WalkMatching}
    /\ Len(walk.received) = Cardinality(WalkMatching)
    /\ \A i, j \in 1..Len(walk.received) :
          i < j => UserOf(walk.received[i]).created_at
                      > UserOf(walk.received[j]).created_at
    /\ \A i \in 1..Len(walk.pages) : walk.pages[i] <= walk.limit
    /\ walk.last.hasNext = FALSE
    /\ walk.last.next_offset = Nothing

AllowList(table) ==
    CASE table = "users"    -> Range(UserFields)
      [] table = "students" -> {field_mapping[i][2] : i \in 1..Len(field_mapping)}
      [] table = "courses"  -> Range(CourseFields)

PkColumn(table) ==
    CASE table = "users"    -> "user_id"
      [] table = "students" -> "student_id"
      [] table = "courses"  -> "id"
      [] table = "batches"  -> "batch_id"

\* An update function ran an UPDATE statement.
StatementRun == updOut.kind = "done" /\ updOut.stmt # Nothing

\* C9: the columns of the SET clause of an update statement, the timestamp
\* aside, are members of the entity's allow-list, whatever the keys of the
\* mapping the update function was given.
C9_SetColumnsAllowListed ==
    StatementRun =>
        LET st == updOut.stmt[1]
        IN  \A i \in 1..(Len(st.set) - 1) : st.set[i] \in AllowList(updOut.table)

\* An update function was given a mapping, not empty, of allow-listed keys.
AllowedUpdate ==
    /\ updOut.kind = "done"
    /\ updOut.table \in {"users", "students", "courses"}
    /\ updOut.updates # <<>>
    /\ \A i \in 1..Len(updOut.updates) :
          updOut.updates[i][1] \in AllowList(updOut.table)

\* The update changed nothing but the fields of the mapping and updated_at
\* in the rows with the primary key.
OnlyMappedFieldsChanged ==
    LET t      == updOut.table
        before == updOut.before
        ks     == {updOut.updates[i][1] : i \in 1..Len(updOut.updates)}
    IN  /\ \A o \in {"users", "students", "courses", "batches", "enrollments"} \ {t} :
              db[o] = before[o]
        /\ Len(db[t]) = Len(before[t])
        /\ \A i \in 1..Len(before[t]) :
              IF before[t][i][PkColumn(t)] # updOut.pk THEN db[t][i] = before[t][i]
              ELSE /\ \A c \in DOMAIN before[t][i] \ (ks \cup {"updated_at"}) :
                         db[t][i][c] = before[t][i][c]
                   /\ \A k \in 1..Len(updOut.updates) :
                         db[t][i][updOut.updates[k][1]] = updOut.updates[k][2].s
                   /\ db[t][i].updated_at = before.clock

\* C10: given a mapping of allow-listed keys, the statement assigns exactly
\* the fields of the mapping, in order, and then updated_at; its WHERE
\* clause is the primary key; its parameters are the values of the mapping
\* in order, then the timestamp, then the primary key; and nothing else of
\* the database changes.
C10_UpdateTouchesExactlyMapping ==
    AllowedUpdate =>
        /\ updOut.stmt # Nothing
        /\ LET st == updOut.stmt[1]
           IN  /\ st.table = updOut.table
               /\ st.set = Keys(updOut.updates) \o <<"updated_at">>
               /\ st.where = <<PkColumn(updOut.table)>>
               /\ st.params = Values(updOut.updates)
                                \o <<JInt(updOut.before.clock), JStr(updOut.pk)>>
        /\ updOut.returned # "raised"
        /\ OnlyMappedFieldsChanged

\* C10 happens: db_update_user was given two allow-listed fields of a user
\* that exists, among other users.
C10_Witness ==
    /\ AllowedUpdate
    /\ updOut.via = "function"
    /\ updOut.table = "users"
    /\ Len(updOut.updates) = 2
    /\ updOut.returned = "row"
    /\ Len(db.users) >= 2

(***************************************************************************)
(* Properties of updates that change nothing or find nothing.              *)
(***************************************************************************)
\* The names under which a request gives the handler a field to change.
RequestFields(table) ==
    CASE table = "users"    -> Range(UserFields)
      [] table = "students" -> {field_mapping[i][1] : i \in 1..Len(field_mapping)}
      [] table = "courses"  ->
            {"title", "description", "status", "thumbnailUrl", "learningPoints"}
      [] table = "batches"  -> Range(BatchFields)

\* The permitted fields the update was asked to change: the allow-listed
\* keys of the mapping given to an update function, the fields a request
\* gave its handler; a batch field given as null asks for no change.
FieldsSent ==
    IF updOut.via = "function"
    THEN {k \in AllowList(updOut.table) :
            \E i \in 1..Len(updOut.updates) : updOut.updates[i][1] = k}
    ELSE {k \in RequestFields(updOut.table) :
            /\ Has(updOut.body, k)
            /\ updOut.table = "batches" => updOut.body[k].t # "null"}

\* The update was answered as having nothing to update: None from an update
\* function, 400 "No valid fields to update" from a handler.
ReportedNothingToUpdate ==
    IF updOut.via = "function" THEN updOut.returned = "None"
    ELSE updOut.status = 400 /\ updOut.error = "No valid fields to update"

\* C11: an update whose mapping holds no allow-listed key is reported as
\* nothing to update, runs no statement, opens no connection and leaves
\* the database as it was.
C11_NothingToUpdate ==
    (updOut.kind = "done" /\ FieldsSent = {}) =>
        /\ ReportedNothingToUpdate
        /\ updOut.stmt = Nothing
        /\ ~updOut.connected
        /\ db = updOut.before

\* The row the update names is in the database.
TargetExists ==
    \E r \in Range(updOut.before[updOut.table]) :
        /\ r[PkColumn(updOut.table)] = updOut.pk
        /\ updOut.table = "batches" => r.course_id = PyStr(updOut.body["course_id"])

\* C12: a request that gives no field to change of an entity that exists is
\* never answered 404, the answer to a request whose target does not exist.
C12_NothingToUpdateIsNotNotFound ==
    (updOut.kind = "done" /\ updOut.via = "handler") =>
        /\ (FieldsSent = {} /\ TargetExists) => updOut.status # 404
        /\ (updOut.stmt # Nothing /\ updOut.returned # "raised" /\ ~TargetExists)
              => updOut.status = 404

(***************************************************************************)
(* Database connections.  Every function of the data layer follows one     *)
(* pattern, shown by db_create_user: pg_connect() and conn.cursor() before *)
(* a try whose finally closes the cursor and the connection.  The          *)
(* SQL-execution handler of sql_updater.py connects inside a try and       *)
(* closes only on the path that runs to the end of it.  An invocation is   *)
(* modelled step by step; which step fails is an input of the invocation.  *)
(***************************************************************************)
MaxCalls == 3

DalKinds == {"db_create_user", "db_create_enrollment"}

CallKinds == DalKinds \cup {"sql_updater"}

\* the step of an invocation that raises: the connect, the statement, the
\* commit, the fetch of the result, or (enrollments) the duplicate found
Faults == {"none", "connect", "execute", "commit", "fetchall", "exists"}

SqlInputs == {"", "create database lms", "select 1"}

\* sql.strip().lower().startswith("create database")
IsCreateDatabase(sql) == sql = "create database lms"

\* pg_connect(): a new connection, open until it is closed
pg_connect(c) == [open |-> c.open \cup {c.made + 1}, made |-> c.made + 1]

\* conn.close()
close(c, conn) == [c EXCEPT !.open = @ \ {conn}]

\* the body of the try of a data-layer function raises when a statement or
\* the commit fails, or when db_create_enrollment finds the enrollment
DalRaises(kind, fault) ==
    \/ fault \in {"execute", "commit"}
    \/ kind = "db_create_enrollment" /\ fault = "exists"

\* the try of the SQL-execution handler raises when the statement fails, or
\* the commit that follows every statement but CREATE DATABASE; a failing
\* fetchall is caught where it happens
SqlRaises(sql, fault) ==
    \/ fault = "execute"
    \/ fault = "commit" /\ ~IsCreateDatabase(sql)

\* str(e) of the exception a failing step raises
ExceptionText(fault) ==
    CASE fault = "connect" -> "connection refused"
      [] fault = "execute" -> "relation does not exist"
      [] fault = "commit"  -> "could not commit"
      [] OTHER             -> "error"

\* What the handler around a data-layer function answers: 201 when the
\* function returns, 400 with the text of the ValueError that
\* db_create_enrollment raises for a stored enrollment, and the generic 500
\* for every other exception.
HandlerStatus(kind, fault) ==
    IF ~DalRaises(kind, fault) THEN 201
    ELSE IF kind = "db_create_enrollment" /\ fault = "exists" THEN 400
    ELSE 500

HandlerError(kind, fault) ==
    IF ~DalRaises(kind, fault) THEN None
    ELSE IF kind = "db_create_enrollment" /\ fault = "exists"
    THEN "Student is already enrolled in this batch."
    ELSE "Internal server error"

InvokeHandler ==
    /\ call.pc = "idle"
    /\ call.n < MaxCalls
    /\ \E kind \in CallKinds, fault \in Faults, sql \in SqlInputs :
        /\ kind \in DalKinds => sql = ""
        /\ call' = [kind |-> kind, pc |-> "start", conn |-> 0, sql |-> sql,
                    fault |-> fault, status |-> 0, error |-> None, tries |-> 0,
                    n |-> call.n]
    /\ UNCHANGED <<routes, event, resp, authIn, authOut, db, listOut, walk, updOut, conns, procs, mail, createOut, reqOut>>

\* conn = pg_connect(); cur = conn.cursor()
DalConnect ==
    /\ call.pc = "start"
    /\ call.kind \in DalKinds
    /\ IF call.fault = "connect"
       THEN /\ call' = [call EXCEPT !.pc = "returned", !.status = 500,
                                     !.error = "Internal server error"]
            /\ conns' = conns
       ELSE /\ conns' = pg_connect(conns)
            /\ call' = [call EXCEPT !.pc = "try", !.conn = conns'.made]
    /\ UNCHANGED <<routes, event, resp, authIn, authOut, db, listOut, walk, updOut, procs, mail, createOut, reqOut>>

\* try: ... execute ... commit ... return
DalTry ==
    /\ call.pc = "try"
    /\ call.kind \in DalKinds
    /\ call' = [call EXCEPT !.pc = "finally", !.tries = @ + 1,
                            !.status = HandlerStatus(call.kind, call.fault),
                            !.error = HandlerError(call.kind, call.fault)]
    /\ UNCHANGED <<routes, event, resp, authIn, authOut, db, listOut, walk, updOut, conns, procs, mail, createOut, reqOut>>

\* finally: cur.close(); conn.close()
DalFinally ==
    /\ call.pc = "finally"
    /\ conns' = close(conns, call.conn)
    /\ call' = [call EXCEPT !.pc = "returned"]
    /\ UNCHANGED <<routes, event, resp, authIn, authOut, db, listOut, walk, updOut, procs, mail, createOut, reqOut>>

\* lambda_handler of sql_updater.py up to cursor = conn.cursor()
SqlBegin ==
    /\ call.pc = "start"
    /\ call.kind = "sql_updater"
    /\ IF call.sql = ""
       THEN /\ call' = [call EXCEPT !.pc = "returned", !.status = 400,
                                     !.error = "No SQL provided"]
            /\ conns' = conns
       ELSE IF call.fault = "connect"
       THEN /\ call' = [call EXCEPT !.pc = "returned", !.status = 500,
                                     !.error = ExceptionText(call.fault)]
            /\ conns' = conns
       ELSE /\ conns' = pg_connect(conns)
            /\ call' = [call EXCEPT !.pc = "try", !.conn = conns'.made]
    /\ UNCHANGED <<routes, event, resp, authIn, authOut, db, listOut, walk, updOut, procs, mail, createOut, reqOut>>

\* cursor.execute(sql), the commit and the fetchall; an exception leaves the
\* try for the except clause, which returns 500
SqlExecute ==
    /\ call.pc = "try"
    /\ call.kind = "sql_updater"
    /\ call' = IF SqlRaises(call.sql, call.fault)
               THEN [call EXCEPT !.pc = "returned", !.status = 500, !.tries = @ + 1,
                                 !.error = ExceptionText(call.fault)]
               ELSE [call EXCEPT !.pc = "close", !.tries = @ + 1]
    /\ UNCHANGED <<routes, event, resp, authIn, authOut, db, listOut, walk, updOut, conns, procs, mail, createOut, reqOut>>

\* cursor.close(); conn.close(); return 200
SqlClose ==
    /\ call.pc = "close"
    /\ conns' = close(conns, call.conn)
    /\ call' = [call EXCEPT !.pc = "returned", !.status = 200]
    /\ UNCHANGED <<routes, event, resp, authIn, authOut, db, listOut, walk, updOut, procs, mail, createOut, reqOut>>

\* the invocation is over; the next one may begin
Return ==
    /\ call.pc = "returned"
    /\ call' = [NoCall0 EXCEPT !.n = call.n + 1]
    /\ UNCHANGED <<routes, event, resp, authIn, authOut, db, listOut, walk, updOut, conns, procs, mail, createOut, reqOut>>

ConnNext ==
    \/ InvokeHandler
    \/ DalConnect
    \/ DalTry
    \/ DalFinally
    \/ SqlBegin
    \/ SqlExecute
    \/ SqlClose
    \/ Return

ConnSpec == DataInit /\ [][ConnNext]_vars

(***************************************************************************)
(* C13: every handler invocation, the SQL-execution handler included,      *)
(* releases every database connection it acquired on every exit path:      *)
(* whenever no invocation is between its entry and its exit, no            *)
(* connection is open.                                                     *)
(***************************************************************************)
C13_ConnectionsReleased ==
    call.pc \in {"idle", "returned"} => conns.open = {}

(***************************************************************************)
(* One recorded create request against the database built: POST /users,    *)
(* POST /students or POST /enrollments, with the response and the database  *)
(* before it.                                                              *)
(***************************************************************************)
\* bodies whose email differs from a stored one in case and blanks only
UserPostBodies ==
    UserBodies \cup {[email |-> JStr("Ann@X"), full_name |-> JStr("Ann"), role |-> JStr("admin")]}

StudentPostBodies ==
    StudentBodies \cup {[firstName |-> JStr("Ann"), lastName |-> JStr("Cy"),
                         email |-> JStr(" Ann@X "), mobileNumber |-> JStr("555")]}

Posted(table, body, out) ==
    [kind |-> "done", table |-> table, body |-> body, status |-> out.status,
     error |-> out.error, before |-> db]

PostUser ==
    /\ Building
    /\ \E body \in UserPostBodies :
        LET out == create_user_handler(db, body)
        IN  /\ db' = out.db
            /\ createOut' = Posted("users", body, out)
    /\ UNCHANGED <<routes, event, resp, authIn, authOut, listOut, walk, updOut, conns, call, procs, mail, reqOut>>

PostStudent ==
    /\ Building
    /\ \E body \in StudentPostBodies :
        LET out == create_student_handler(db, body)
        IN  /\ db' = out.db
            /\ createOut' = Posted("students", body, out)
    /\ UNCHANGED <<routes, event, resp, authIn, authOut, listOut, walk, updOut, conns, call, procs, mail, reqOut>>

\* uuid.uuid4().int % 1000: two of the thousand values the draw can give
Suffixes == {1, 2}

PostEnrollment ==
    /\ Building
    /\ \E body \in EnrollmentBodies(db), suffix \in Suffixes :
        LET out == create_enrollment_handler(db, body, suffix)
        IN  /\ db' = out.db
            /\ createOut' = Posted("enrollments", body, out)
    /\ UNCHANGED <<routes, event, resp, authIn, authOut, listOut, walk, updOut, conns, call, procs, mail, reqOut>>

CreateNext ==
    \/ CreateUser
    \/ CreateStudent
    \/ CreateCourse
    \/ CreateBatch
    \/ CreateEnrollment
    \/ PostUser
    \/ PostStudent
    \/ PostEnrollment

CreateSpec == DataInit /\ [][CreateNext]_vars

\* C25: after any sequence of successful enrollment creations,
\* including several on the same day, no two stored enrollments share an
\* enrollment_number.
C25_EnrollmentNumbersUnique ==
    \A i, j \in 1..Len(db.enrollments) :
        i # j => db.enrollments[i].enrollment_number # db.enrollments[j].enrollment_number

\* the unique key of the entity the recorded request creates was in storage
\* before the request
PostedKeyExisted ==
    LET b == createOut.body
        d == createOut.before
    IN  CASE createOut.table = "users" ->
                 \E r \in Range(d.users) : r.email = StripS(Lower(b.email.s))
          [] createOut.table = "students" ->
                 \E r \in Range(d.students) : r.email = StripS(Lower(b.email.s))
          [] createOut.table = "enrollments" ->
                 \E r \in Range(d.enrollments) :
                     /\ r.student_id = b.student_id.s
                     /\ r.course_id = b.course_id.s
                     /\ r.batch_id = b.batch_id.s
          [] OTHER -> FALSE

(***************************************************************************)
(* C14: a POST that creates a user or a student whose email (lower-cased   *)
(* and trimmed) is already stored, or an enrollment whose (student,        *)
(* course, batch) is already stored, returns 409 and leaves the number of  *)
(* stored entities unchanged.                                              *)
(***************************************************************************)
C14_DuplicateIsConflict ==
    (createOut.kind = "done" /\ PostedKeyExisted) =>
        /\ createOut.status = 409
        /\ \A t \in {"users", "students", "enrollments"} :
               Len(db[t]) = Len(createOut.before[t])

(***************************************************************************)
(* Concurrent create requests.  create_user_handler asks db_user_exists    *)
(* and then calls db_create_user, each on a connection of its own;         *)
(* db_create_enrollment runs its SELECT and then its INSERT.  Nothing in   *)
(* the code (no lock, no FOR UPDATE, no ON CONFLICT, no handling of a      *)
(* constraint violation) ties the second statement to the first, so a      *)
(* request is two steps and the steps of two requests interleave.          *)
(***************************************************************************)
\* what the requesters may send against database d
RaceRequests(d) ==
    [op : {"users"}, body : UserPostBodies]
        \cup [op : {"enrollments"}, body : EnrollmentBodies(d)]

\* the handler of a request, run to its end against d
RunCreate(d, r) ==
    IF r.op = "users"
    THEN create_user_handler(d, r.body)
    ELSE create_enrollment_handler(d, r.body, r.suffix)

\* the second statement of a request whose check found nothing: the insert
\* of db_create_user or of db_create_enrollment, on the database as it is now
RunInsert(d, r) ==
    IF r.op = "users"
    THEN db_create_user(d, StripS(Lower(r.body.email.s)),
                        StripS(BodyGet(r.body, "full_name", JStr("")).s),
                        StripS(Lower(r.body.role.s)),
                        StripS(BodyGet(r.body, "status", JStr("Active")).s))
    ELSE db_create_enrollment(d, r.body.student_id.s, r.body.course_id.s,
                              r.body.batch_id.s, r.body.start_date.n, r.suffix)

\* both requests arrive
StartRequests ==
    /\ Building
    /\ \E r1 \in RaceRequests(db), r2 \in RaceRequests(db), s1 \in Suffixes, s2 \in Suffixes :
        procs' = [p \in Requesters |->
                    LET r == IF p = "r1" THEN r1 ELSE r2
                    IN  [op |-> r.op, pc |-> "start", body |-> r.body,
                         suffix |-> IF p = "r1" THEN s1 ELSE s2, status |-> 0]]
    /\ UNCHANGED <<routes, event, resp, authIn, authOut, db, listOut, walk, updOut, conns, call, mail, createOut, reqOut>>

\* validation and the existence check: the request ends here with the
\* handler's error response, or goes on to insert
CheckStep ==
    \E p \in Requesters :
        /\ procs[p].pc = "start"
        /\ LET out == RunCreate(db, procs[p])
           IN  procs' = [procs EXCEPT ![p] =
                            IF out.status = 201
                            THEN [@ EXCEPT !.pc = "checked"]
                            ELSE [@ EXCEPT !.pc = "done", !.status = out.status]]
        /\ UNCHANGED <<routes, event, resp, authIn, authOut, db, listOut, walk, updOut, conns, call, mail, createOut, reqOut>>

\* the insert, the commit and the 201 response
InsertStep ==
    \E p \in Requesters :
        /\ procs[p].pc = "checked"
        /\ db' = RunInsert(db, procs[p])
        /\ procs' = [procs EXCEPT ![p] = [@ EXCEPT !.pc = "done", !.status = 201]]
        /\ UNCHANGED <<routes, event, resp, authIn, authOut, listOut, walk, updOut, conns, call, mail, createOut, reqOut>>

RaceNext ==
    \/ CreateStudent
    \/ CreateCourse
    \/ CreateBatch
    \/ StartRequests
    \/ CheckStep
    \/ InsertStep

RaceSpec == DataInit /\ [][RaceNext]_vars

\* the unique key of a request and of a stored row
RequestKey(r) ==
    IF r.op = "users"
    THEN <<StripS(Lower(r.body.email.s))>>
    ELSE <<r.body.student_id.s, r.body.course_id.s, r.body.batch_id.s>>

RowKey(op, row) ==
    IF op = "users"
    THEN <<row.email>>
    ELSE <<row.student_id, row.course_id, row.batch_id>>

RowsWithKey(op, key) ==
    {i \in 1..Len(db[op]) : RowKey(op, db[op][i]) = key}

Created(p) == procs[p].pc = "done" /\ procs[p].status = 201

SameKey(p, q) ==
    procs[p].op = procs[q].op /\ RequestKey(procs[p]) = RequestKey(procs[q])

(***************************************************************************)
(* C15: the uniqueness check and the insert of a create operation are not  *)
(* protected against interleaving.  A request whose check found nothing    *)
(* inserts whatever was inserted since: each request answered 201 has a    *)
(* row of its own, so two concurrent requests for the same (student,       *)
(* course, batch), or for the same email, that both passed the check leave *)
(* two rows for the key.                                                   *)
(***************************************************************************)
C15_CheckThenInsertRaces ==
    \A p \in Requesters :
        Created(p) =>
            Cardinality(RowsWithKey(procs[p].op, RequestKey(procs[p])))
                >= Cardinality({q \in Requesters : Created(q) /\ SameKey(p, q)})

\* two enrollment requests for one (student, course, batch) were both
\* answered 201 and storage holds two rows for the triple
C15_Witness ==
    /\ \A p \in Requesters : Created(p) /\ procs[p].op = "enrollments"
    /\ SameKey("r1", "r2")
    /\ Cardinality(RowsWithKey("enrollments", RequestKey(procs["r1"]))) = 2

(***************************************************************************)
(* The email worker: lambda_handler of email-service.py, a consumer of a   *)
(* DynamoDB stream.  A record is [eventName, dynamodb]; dynamodb may hold  *)
(* NewImage, whose attributes are typed values {"S": string}.  A payload   *)
(* (a dict) is given by its keys, its type, its recipients and its data;   *)
(* data is "dict" (an object the template builders accept), "bad_time" (an *)
(* object whose start_time fmt_ist cannot parse) or "str" (a string).      *)
(***************************************************************************)
MaxRecords == 3

Dict(keys, type, to, data) == [keys |-> keys, type |-> type, to |-> to, data |-> data]

EmptyDict == Dict({}, "", <<>>, "dict")

PayloadKeys == {"type", "to", "data"}

\* json.loads(base64.b64decode(encoded).decode("utf-8")): the object a
\* payload string of the model decodes to; ok is false where it raises
B64Json(encoded) ==
    CASE encoded = "B64_INVITE_A" ->
             [ok |-> TRUE, obj |-> Dict(PayloadKeys, "meeting_invite", <<"a@x">>, "dict")]
      [] encoded = "B64_WELCOME_A" ->
             [ok |-> TRUE, obj |-> Dict(PayloadKeys, "student_welcome", <<"a@x">>, "dict")]
      [] encoded = "B64_INVITE_NOTO" ->
             [ok |-> TRUE, obj |-> Dict({"type", "data"}, "meeting_invite", <<>>, "dict")]
      [] encoded = "B64_INVITE_BADTIME" ->
             [ok |-> TRUE, obj |-> Dict(PayloadKeys, "meeting_invite", <<"a@x">>, "bad_time")]
      [] encoded = "B64_EMPTY" ->
             [ok |-> TRUE, obj |-> EmptyDict]
      [] OTHER ->
             [ok |-> FALSE, obj |-> EmptyDict]

\* dynamodb_image_to_dict: every attribute deserialised to its value
dynamodb_image_to_dict(ddb_image) ==
    [k \in DOMAIN ddb_image |-> ddb_image[k].S]

\* decode_b64_payload_from_item: the decoded object, {} where the field is
\* missing or empty or the decoding raises
decode_b64_payload_from_item(item) ==
    IF "payload" \notin DOMAIN item \/ item.payload = "" THEN EmptyDict
    ELSE IF B64Json(item.payload).ok THEN B64Json(item.payload).obj
    ELSE EmptyDict

\* find_field: the value of the first of the names the item has, else None
RECURSIVE find_field(_, _)
find_field(item, possible_names) ==
    IF possible_names = <<>> THEN None
    ELSE IF Head(possible_names) \in DOMAIN item
    THEN item[Head(possible_names)]
    ELSE find_field(item, Tail(possible_names))

\* str.split(","), each part stripped, empty parts dropped
SplitComma(v) ==
    CASE v = "b@x, c@x" -> <<"b@x", "c@x">>
      [] v = ""         -> <<>>
      [] OTHER          -> <<v>>

\* normalize_to_list, of None or a string
normalize_to_list(maybe) ==
    IF maybe = None THEN <<>> ELSE SplitComma(maybe)

\* json.loads of the data field: "{}" is the one value of the model that
\* parses (to an empty object); any other string stays a string
JsonData(data_val) ==
    IF data_val = None \/ data_val = "{}" THEN "dict" ELSE "str"

\* extract_email_payload_from_record
extract_email_payload_from_record(record_image) ==
    LET type_val == find_field(record_image, <<"type", "event_type", "email_type">>)
        to_val   == find_field(record_image, <<"to", "to_addresses", "recipients", "emails", "email">>)
        data_val == find_field(record_image, <<"data", "payload", "body", "template_data", "details">>)
    IN  Dict({"type", "to", "cc", "bcc", "reply_to", "data"},
             IF type_val = None THEN "" ELSE Lower(type_val),
             normalize_to_list(to_val),
             JsonData(data_val))

\* not payload
EmptyPayload(payload) == payload.keys = {}

\* A selection that takes the flat fields first and the payload field only
\* where they name no recipient.
SelectPayloadFlatFirst(item) ==
    LET flat == extract_email_payload_from_record(item)
    IN  IF flat.to # <<>> THEN flat ELSE decode_b64_payload_from_item(item)

\* lambda_handler, "Attempt to decode base64 payload first" and the fallback
SelectPayload(item) ==
    LET decoded == IF "payload" \in DOMAIN item
                   THEN decode_b64_payload_from_item(item)
                   ELSE EmptyDict
    IN  IF EmptyPayload(decoded)
        THEN extract_email_payload_from_record(item)
        ELSE decoded

\* payload.get("to") or []
Recipients(payload) == IF "to" \in payload.keys THEN payload.to ELSE <<>>

\* (payload.get("type") or "").lower()
TypeOf(payload) == IF "type" \in payload.keys THEN Lower(payload.type) ELSE ""

\* payload.get("data") or {}
DataOf(payload) == IF "data" \in payload.keys THEN payload.data ELSE "dict"

\* the if/elif chain that resolves the template
KnownTypes ==
    {"meeting_invite", "meeting_cancel", "meeting_cancellation",
     "forgot_password", "password_email"}

\* the builder raises: data.get on a string, or the unpacking of what
\* fmt_ist returns for a start_time it cannot parse
BuilderRaises(typ, data) ==
    \/ data = "str"
    \/ typ \in {"meeting_invite", "meeting_cancel", "meeting_cancellation"} /\ data = "bad_time"

\* every event counts as an insert
AnyEvent(rec) == TRUE

\* rec.get("eventName", "").upper() != "INSERT", negated
IsInsert(rec) == Upper(rec.eventName) = "INSERT"

\* not new_image, negated
HasNewImage(rec) ==
    "NewImage" \in DOMAIN rec.dynamodb /\ DOMAIN rec.dynamodb.NewImage # {}

NewResult(idx) ==
    [record_index |-> idx, processed |-> FALSE, error |-> None, ses_response |-> None]

\* a transport failure that is taken for a success
SendOutcomeSwallowed(rec_result, sesOk) ==
    [rec_result EXCEPT !.processed = TRUE, !.ses_response = "MessageId"]

\* the try around send_ses_email
SendOutcome(rec_result, sesOk) ==
    IF sesOk
    THEN [rec_result EXCEPT !.processed = TRUE, !.ses_response = "MessageId"]
    ELSE [rec_result EXCEPT !.error = "SES send error"]

\* What one pass of the loop does with record rec at index idx: the result
\* it appends (none when it returns from the handler), the stages the
\* record went through in order, the payload used, the call of the
\* transport if any, and whether the pass returned from the handler.
Pass(result, stages, payload, call0, returned) ==
    [result |-> result, stages |-> stages, payload |-> payload, call |-> call0,
     returned |-> returned]

ProcessOne(rec, idx, sesOk) ==
    LET r0      == NewResult(idx)
        item    == dynamodb_image_to_dict(rec.dynamodb.NewImage)
        payload == SelectPayload(item)
        to      == Recipients(payload)
        typ     == TypeOf(payload)
    IN  IF ~IsInsert(rec)
        THEN Pass(Some([r0 EXCEPT !.error = "Skipped (not INSERT)"]),
                  <<"filter">>, EmptyDict, Nothing, FALSE)
        ELSE IF ~HasNewImage(rec)
        THEN Pass(Some([r0 EXCEPT !.error = "No NewImage in INSERT; skipping"]),
                  <<"filter", "image">>, EmptyDict, Nothing, FALSE)
        ELSE IF to = <<>>
        THEN Pass(Some([r0 EXCEPT !.error = "No 'to' recipients found"]),
                  <<"filter", "image", "decode">>, payload, Nothing, FALSE)
        ELSE IF typ \notin KnownTypes
        THEN Pass(Nothing, <<"filter", "image", "decode", "template">>, payload, Nothing, TRUE)
        ELSE IF BuilderRaises(typ, DataOf(payload))
        THEN Pass(Some([r0 EXCEPT !.error = "traceback"]),
                  <<"filter", "image", "decode", "template">>, payload, Nothing, FALSE)
        ELSE Pass(Some(SendOutcome(r0, sesOk)),
                  <<"filter", "image", "decode", "template", "send">>, payload,
                  Some([record_index |-> idx, to |-> to, template |-> typ, ok |-> sesOk]),
                  FALSE)

\* the responses of the handler
NoResponse == [statusCode |-> 0, keys |-> {}, message |-> None, records_received |-> 0,
               processed_count |-> 0, results |-> <<>>]

NoRecords == [NoResponse EXCEPT !.statusCode = 400, !.keys = {"error"},
                                !.message = "No Records in event"]

InvalidType == [NoResponse EXCEPT !.statusCode = 200, !.keys = {"message"},
                                  !.message = "Invalid type to send the email"]

Summary(records, processed, results) ==
    [statusCode |-> 200,
     keys |-> {"message", "records_received", "processed_count", "results"},
     message |-> "Batch processed (INSERT only)",
     records_received |-> Len(records), processed_count |-> processed,
     results |-> results]

\* the records of the model
Attr(v) == [S |-> v]

Image_Invite ==
    [payload |-> Attr("B64_INVITE_A"), type |-> Attr("Forgot_Password"), to |-> Attr("b@x")]

Image_Undecodable ==
    [payload |-> Attr("not base64"), type |-> Attr("Forgot_Password"),
     to |-> Attr("b@x, c@x"), data |-> Attr("{}")]

Image_Flat == [type |-> Attr("password_email"), email |-> Attr("b@x")]

Image_Welcome == [payload |-> Attr("B64_WELCOME_A")]

Image_NoTo == [payload |-> Attr("B64_INVITE_NOTO"), to |-> Attr("b@x")]

Image_BadTime == [payload |-> Attr("B64_INVITE_BADTIME")]

Image_Empty ==
    [payload |-> Attr("B64_EMPTY"), type |-> Attr("password_email"), to |-> Attr("b@x")]

Record(eventName, image) == [eventName |-> eventName, dynamodb |-> [NewImage |-> image]]

RecordValues ==
    { Record("MODIFY", Image_Invite),
      [eventName |-> "INSERT", dynamodb |-> <<>>],
      Record("INSERT", Image_Invite),
      Record("INSERT", Image_Undecodable),
      Record("insert", Image_Flat),
      Record("INSERT", Image_Welcome),
      Record("INSERT", Image_NoTo),
      Record("INSERT", Image_BadTime),
      Record("INSERT", Image_Empty) }

Batches == SeqsUpTo(RecordValues, MaxRecords)

\* the state of the worker
MailState(state, records, pos, results, processed, sent, passes, response) ==
    [state |-> state, records |-> records, pos |-> pos, results |-> results,
     processed |-> processed, sent |-> sent, passes |-> passes, resp |-> response]

\* the event arrives; an event without records is answered at once
ReceiveBatch ==
    /\ Building
    /\ mail.state = "idle"
    /\ \E records \in Batches :
        mail' = IF records = <<>>
                THEN MailState("returned", records, 1, <<>>, 0, <<>>, <<>>, NoRecords)
                ELSE MailState("running", records, 1, <<>>, 0, <<>>, <<>>, NoResponse)
    /\ UNCHANGED <<routes, event, resp, authIn, authOut, db, listOut, walk, updOut, conns, call, procs, createOut, reqOut>>

\* one pass of the loop; the transport succeeds or raises
ProcessRecord ==
    /\ mail.state = "running"
    /\ mail.pos <= Len(mail.records)
    /\ \E sesOk \in BOOLEAN :
        LET pass == ProcessOne(mail.records[mail.pos], mail.pos - 1, sesOk)
            done == [record_index |-> mail.pos - 1, stages |-> pass.stages,
                     payload |-> pass.payload]
        IN  mail' =
              IF pass.returned
              THEN [mail EXCEPT !.state = "returned", !.resp = InvalidType,
                                !.passes = Append(@, done)]
              ELSE [mail EXCEPT !.pos = @ + 1,
                                !.results = @ \o pass.result,
                                !.processed = IF pass.result[1].processed THEN @ + 1 ELSE @,
                                !.sent = @ \o pass.call,
                                !.passes = Append(@, done)]
    /\ UNCHANGED <<routes, event, resp, authIn, authOut, db, listOut, walk, updOut, conns, call, procs, createOut, reqOut>>

\* the loop is over: the batch summary
ReturnSummary ==
    /\ mail.state = "running"
    /\ mail.pos > Len(mail.records)
    /\ mail' = [mail EXCEPT !.state = "returned",
                            !.resp = Summary(mail.records, mail.processed, mail.results)]
    /\ UNCHANGED <<routes, event, resp, authIn, authOut, db, listOut, walk, updOut, conns, call, procs, createOut, reqOut>>

MailNext ==
    \/ ReceiveBatch
    \/ ProcessRecord
    \/ ReturnSummary

MailSpec == DataInit /\ [][MailNext]_vars

(***************************************************************************)
(* Properties of the email worker.                                         *)
(***************************************************************************)
\* the deserialised new image of record i of the batch
ItemOf(i) == dynamodb_image_to_dict(mail.records[i].dynamodb.NewImage)

\* record i is an insert with a new image
InsertWithImage(i) ==
    /\ Upper(mail.records[i].eventName) = "INSERT"
    /\ "NewImage" \in DOMAIN mail.records[i].dynamodb

\* record i is an insert whose payload has recipients; its type is known
WithRecipients(i) ==
    InsertWithImage(i) /\ Recipients(SelectPayload(ItemOf(i))) # <<>>

KnownType(i) == TypeOf(SelectPayload(ItemOf(i))) \in KnownTypes

\* the records handed to the transport, by position in the batch
SentRecords == {mail.sent[k].record_index + 1 : k \in 1..Len(mail.sent)}

\* the response has a result entry for record i
InResponse(i) ==
    /\ "results" \in mail.resp.keys
    /\ \E k \in 1..Len(mail.resp.results) : mail.resp.results[k].record_index = i - 1

(***************************************************************************)
(* C16: a record whose type is not a known template type does not prevent  *)
(* the other records of its batch from being processed: every other insert *)
(* record with recipients and a known type, before or after it, is handed  *)
(* to the mail transport and has its own entry in the returned result      *)
(* list.                                                                   *)
(***************************************************************************)
C16_UnknownTypeDoesNotStopBatch ==
    (mail.state = "returned"
        /\ \E u \in 1..Len(mail.records) : WithRecipients(u) /\ ~KnownType(u)) =>
        \A i \in 1..Len(mail.records) :
            (WithRecipients(i) /\ KnownType(i)
                /\ ~BuilderRaises(TypeOf(SelectPayload(ItemOf(i))), DataOf(SelectPayload(ItemOf(i))))) =>
                /\ i \in SentRecords
                /\ InResponse(i)

\* the transport raised for record i
TransportFailed(i) ==
    \E k \in 1..Len(mail.sent) : mail.sent[k].record_index = i - 1 /\ ~mail.sent[k].ok

\* the handler returned from the template resolution of a record after i
ReturnedAtLaterRecord(i) ==
    /\ mail.resp = InvalidType
    /\ Len(mail.passes) > i

C18_ResultListAccountsForBatch ==
    (mail.state = "returned" /\ mail.records # <<>>) =>
        /\ "results" \in mail.resp.keys
        /\ Len(mail.resp.results) = Len(mail.records)
        /\ \A i \in 1..Len(mail.resp.results) :
            /\ mail.resp.results[i].record_index = i - 1
            /\ mail.resp.results[i].processed <=> (mail.resp.results[i].error = None)
        /\ mail.resp.records_received = Len(mail.records)
        /\ mail.resp.processed_count =
               Cardinality({i \in 1..Len(mail.resp.results) : mail.resp.results[i].processed})

\* the stages of a record, in order
Stages == <<"filter", "image", "decode", "template", "send">>

(***************************************************************************)
(* C19: the transport is called for a record only after the record has     *)
(* passed, in this order, the insert-only filter, the new-image check, the *)
(* payload decoding with a non-empty recipient list and the template       *)
(* resolution; a record that is not an insert is recorded as skipped and   *)
(* never reaches the transport; the transport is called at most once per   *)
(* record, in the order of the batch.                                      *)
(***************************************************************************)
C19_TransportOnlyAfterAllStages ==
    /\ \A i \in 1..Len(mail.passes) :
        /\ mail.passes[i].record_index = i - 1
        /\ mail.passes[i].stages = SubSeq(Stages, 1, Len(mail.passes[i].stages))
        /\ i \in SentRecords <=> mail.passes[i].stages = Stages
        /\ Upper(mail.records[i].eventName) # "INSERT" =>
            /\ i \notin SentRecords
            /\ mail.results[i].error = "Skipped (not INSERT)"
            /\ ~mail.results[i].processed
    /\ \A k \in 1..Len(mail.sent) :
        LET i == mail.sent[k].record_index + 1
        IN  /\ i <= Len(mail.passes)
            /\ WithRecipients(i)
            /\ KnownType(i)
            /\ mail.sent[k].to = Recipients(SelectPayload(ItemOf(i)))
            /\ mail.sent[k].template = TypeOf(SelectPayload(ItemOf(i)))
    /\ \A k \in 1..Len(mail.sent) : \A l \in (k + 1)..Len(mail.sent) :
        mail.sent[k].record_index < mail.sent[l].record_index

\* two records were sent, in order, around one that was skipped
C19_Witness ==
    /\ Len(mail.sent) = 2
    /\ Len(mail.results) = 3
    /\ mail.results[2].error = "Skipped (not INSERT)"
    /\ mail.sent[1].record_index = 0
    /\ mail.sent[2].record_index = 2

\* the payload field of item decodes to a non-empty object; it is absent or
\* cannot be decoded
DecodesToObject(item) ==
    /\ "payload" \in DOMAIN item
    /\ B64Json(item.payload).ok
    /\ B64Json(item.payload).obj.keys # {}

Undecodable(item) ==
    "payload" \notin DOMAIN item \/ ~B64Json(item.payload).ok

\* the flat type and recipients of the items of the model
FlatType(item) == IF "type" \in DOMAIN item THEN Lower(item.type) ELSE ""

FlatTo(item) ==
    IF "to" \in DOMAIN item THEN SplitComma(item.to)
    ELSE IF "email" \in DOMAIN item THEN SplitComma(item.email)
    ELSE <<>>

(***************************************************************************)
(* C20: for an insert record whose new image has a payload field that      *)
(* base64-decodes to a non-empty JSON object, that object is the email     *)
(* payload and the flat fields of the record are ignored; when the payload *)
(* field is absent or cannot be decoded, the payload is built from the     *)
(* flat fields (type, recipients, cc, bcc, reply-to, data).                *)
(***************************************************************************)
C20_PayloadPreferredOverFlatFields ==
    \A i \in 1..Len(mail.passes) :
        Len(mail.passes[i].stages) >= 3 =>
            LET item == ItemOf(i)
                used == mail.passes[i].payload
            IN  /\ DecodesToObject(item) => used = B64Json(item.payload).obj
                /\ Undecodable(item) =>
                    /\ used.keys = {"type", "to", "cc", "bcc", "reply_to", "data"}
                    /\ used.type = FlatType(item)
                    /\ used.to = FlatTo(item)
                /\ i \in SentRecords =>
                    \E k \in 1..Len(mail.sent) :
                        /\ mail.sent[k].record_index = i - 1
                        /\ mail.sent[k].to = Recipients(used)
                        /\ mail.sent[k].template = TypeOf(used)

\* one record was sent to the recipient of its decoded payload although its
\* flat fields name another, and one was sent to its flat recipients
C20_Witness ==
    \E i, j \in 1..Len(mail.passes) :
        /\ i \in SentRecords /\ j \in SentRecords
        /\ DecodesToObject(ItemOf(i))
        /\ FlatTo(ItemOf(i)) # <<>>
        /\ mail.passes[i].payload.to # FlatTo(ItemOf(i))
        /\ Undecodable(ItemOf(j))
        /\ mail.passes[j].payload.to = FlatTo(ItemOf(j))

(***************************************************************************)
(* C21: for every inbound HTTP event, whatever its method, path, headers   *)
(* and body (absent, unparseable and non-object bodies included),          *)
(* lambda_handler returns a response envelope and never terminates by      *)
(* raising; a response of its own is an error of the shape                 *)
(* {"error": message}.                                                     *)
(***************************************************************************)
C21_AlwaysAnEnvelope ==
    resp.kind # "pending" =>
        /\ resp.kind # "raised"
        /\ resp.kind = "response" => (resp.error # None /\ resp.status \in {401, 404})

(***************************************************************************)
(* C22: in every handler an unexpected failure of a database operation is  *)
(* not retried and becomes exactly one response with status 500 and a      *)
(* fixed generic message; the text of the internal exception never appears *)
(* in a 500 response body.                                                 *)
(***************************************************************************)
C22_GenericInternalError ==
    (call.pc = "returned" /\ call.status = 500) =>
        /\ call.tries <= 1
        /\ call.error = "Internal server error"
        /\ call.error # ExceptionText(call.fault)

(***************************************************************************)
(* C23: every list handler answers a limit or offset that is not an        *)
(* integer with the validation status 400, never with 500, and issues no   *)
(* query for it.                                                           *)
(***************************************************************************)
C23_InvalidPagingIsValidationError ==
    (listOut.op # "pending" /\ listOut.invalid # None) =>
        /\ listOut.status = 400
        /\ listOut.args = NoArgs
        /\ listOut.result = NoResult

(***************************************************************************)
(* Modules of a course: the handlers of courses/{course_id}/modules and    *)
(* courses/{course_id}/modules/{module_id}, and their statements.          *)
(***************************************************************************)
MaxModules == 2

ModuleIds == <<"m1", "m2", "m3", "m4">>

db_course_exists(d, course_id) ==
    \E c \in Range(d.courses) : c.id = course_id

\* INSERT INTO modules ... RETURNING
db_create_module(d, course_id, title, description, position, is_published) ==
    LET row == [id |-> FreshId(ModuleIds, d.modules, "id"), course_id |-> course_id,
                title |-> title, description |-> description,
                position |-> position, is_published |-> is_published,
                created_at |-> NowIso(d), updated_at |-> NowIso(d)]
    IN  Tick([d EXCEPT !.modules = Append(@, row)])

\* SELECT ... FROM modules m JOIN courses c ON c.id = m.course_id
\* WHERE m.id = module_id: the rows fetchone may return
db_get_module_with_lessons(d, module_id) ==
    LET found == {m \in Range(d.modules) :
                     m.id = module_id /\ db_course_exists(d, m.course_id)}
    IN  IF found = {} THEN Nothing ELSE Some(CHOOSE m \in found : TRUE)

\* UPDATE modules SET ... WHERE id = module_id RETURNING ...
db_update_module(d, module_id, title, description, position, is_published) ==
    LET hit(m) == m.id = module_id
        set(m) == [m EXCEPT !.title = title, !.description = description,
                            !.position = position, !.is_published = is_published,
                            !.updated_at = NowIso(d)]
    IN  [db |-> Tick([d EXCEPT !.modules =
                        [i \in 1..Len(@) |-> IF hit(@[i]) THEN set(@[i]) ELSE @[i]]]),
         found |-> \E m \in Range(d.modules) : hit(m)]

\* DELETE FROM modules WHERE id = module_id RETURNING id
db_delete_module(d, module_id) ==
    [db |-> [d EXCEPT !.modules = SelectSeq(@, LAMBDA m : m.id # module_id)],
     deleted |-> \E m \in Range(d.modules) : m.id = module_id]

create_module_handler(d, body, path_params) ==
    LET jt == BodyGet(body, "title", JStr(""))
        jd == BodyGet(body, "description", JStr(""))
        position == BodyGet(body, "sequence_number", JNull)
        course_id == path_params.course_id
    IN  IF ~Truthy(course_id) THEN Out(d, 400, "course_id is required")
        ELSE IF ~db_course_exists(d, course_id) THEN Out(d, 404, "Course not found")
        ELSE IF jt.t # "str" \/ jd.t # "str" THEN Out(d, 500, "Internal server error")
        ELSE IF ~Truthy(StripS(jt.s)) THEN Out(d, 400, "Module title is required")
        ELSE IF position.t \in {"absent", "null"}
        THEN Out(d, 400, "Module position is required")
        ELSE IF position.t # "int" THEN Out(d, 500, "Internal server error")
        ELSE Out(db_create_module(d, course_id, StripS(jt.s), StripS(jd.s),
                                  position.n, "False"),
                 201, None)

get_module_with_lessons_handler(d, path_params) ==
    LET course_id == path_params.course_id
        module_id == path_params.module_id
        module == db_get_module_with_lessons(d, module_id)
    IN  IF ~Truthy(course_id) \/ ~Truthy(module_id)
        THEN Out(d, 400, "course_id and module_id are required")
        ELSE IF ~db_course_exists(d, course_id) THEN Out(d, 404, "Course not found")
        ELSE IF module = Nothing \/ module[1].course_id # course_id
        THEN Out(d, 404, "Module not found")
        ELSE Out(d, 200, None)

update_module_handler(d, body, path_params) ==
    LET course_id == path_params.course_id
        module_id == path_params.module_id
        jt == BodyGet(body, "title", JStr(""))
        jd == BodyGet(body, "description", JStr(""))
        position == BodyGet(body, "sequence_number", JNull)
        upd == db_update_module(d, module_id, StripS(jt.s), StripS(jd.s),
                                position.n, None)
    IN  IF ~Truthy(course_id) \/ ~Truthy(module_id)
        THEN Out(d, 400, "course_id and module_id are required")
        ELSE IF ~db_course_exists(d, course_id) THEN Out(d, 404, "Course not found")
        ELSE IF jt.t # "str" \/ jd.t # "str" THEN Out(d, 500, "Internal server error")
        ELSE IF ~Truthy(StripS(jt.s)) THEN Out(d, 400, "Module title is required")
        ELSE IF position.t \in {"absent", "null"}
        THEN Out(d, 400, "Module position is required")
        ELSE IF position.t # "int" THEN Out(d, 500, "Internal server error")
        ELSE IF ~upd.found THEN Out(upd.db, 404, "Module not found")
        ELSE Out(upd.db, 200, None)

delete_module_handler(d, path_params) ==
    LET course_id == path_params.course_id
        module_id == path_params.module_id
        del == db_delete_module(d, module_id)
    IN  IF ~Truthy(course_id) \/ ~Truthy(module_id)
        THEN Out(d, 400, "course_id and module_id are required")
        ELSE IF ~db_course_exists(d, course_id) THEN Out(d, 404, "Course not found")
        ELSE IF ~del.deleted THEN Out(del.db, 404, "Module not found")
        ELSE Out(del.db, 200, None)

ModuleBodies ==
    { [title |-> JStr(" Ann "), sequence_number |-> JInt(1)],
      [title |-> JStr("Limits"), description |-> JStr("d"), sequence_number |-> JInt(2)] }

ModuleUpdateBodies ==
    ModuleBodies \cup { <<>>, [title |-> JStr("Cy")], [title |-> JNull, sequence_number |-> JInt(1)] }

\* the path parameters of a request on courses/{course_id}/modules/{module_id}
ModulePaths ==
    [course_id : {CourseIds[1], CourseIds[2], "zz"},
     module_id : {ModuleIds[1], ModuleIds[2], "m9"}]

ModuleDone(method, path_params, out) ==
    [kind |-> "module", method |-> method, path_params |-> path_params,
     status |-> out.status, error |-> out.error, before |-> db]

\* POST courses/{course_id}/modules
CreateModule ==
    /\ Building
    /\ Len(db.modules) < MaxModules
    /\ \E body \in ModuleBodies, course_id \in {CourseIds[1], CourseIds[2]} :
          db' = create_module_handler(db, body, [course_id |-> course_id]).db
    /\ UNCHANGED <<routes, event, resp, authIn, authOut, listOut, walk, updOut, conns, call, procs, mail, createOut, reqOut>>

\* GET courses/{course_id}/modules/{module_id}
GetModule ==
    /\ Building
    /\ \E path_params \in ModulePaths :
          LET out == get_module_with_lessons_handler(db, path_params)
          IN  /\ db' = out.db
              /\ reqOut' = ModuleDone("GET", path_params, out)
    /\ UNCHANGED <<routes, event, resp, authIn, authOut, listOut, walk, updOut, conns, call, procs, mail, createOut>>

\* PUT courses/{course_id}/modules/{module_id}
UpdateModule ==
    /\ Building
    /\ \E path_params \in ModulePaths, body \in ModuleUpdateBodies :
          LET out == update_module_handler(db, body, path_params)
          IN  /\ db' = out.db
              /\ reqOut' = ModuleDone("PUT", path_params, out)
    /\ UNCHANGED <<routes, event, resp, authIn, authOut, listOut, walk, updOut, conns, call, procs, mail, createOut>>

\* DELETE courses/{course_id}/modules/{module_id}
DeleteModule ==
    /\ Building
    /\ \E path_params \in ModulePaths :
          LET out == delete_module_handler(db, path_params)
          IN  /\ db' = out.db
              /\ reqOut' = ModuleDone("DELETE", path_params, out)
    /\ UNCHANGED <<routes, event, resp, authIn, authOut, listOut, walk, updOut, conns, call, procs, mail, createOut>>

ModuleNext ==
    \/ CreateCourse
    \/ CreateModule
    \/ GetModule
    \/ UpdateModule
    \/ DeleteModule

ModuleSpec == DataInit /\ [][ModuleNext]_vars

\* the module the request names belonged, before the request, to an existing
\* course other than the one the request names
ForeignModule ==
    /\ reqOut.kind = "module"
    /\ db_course_exists(reqOut.before, reqOut.path_params.course_id)
    /\ \E m \in Range(reqOut.before.modules) :
          /\ m.id = reqOut.path_params.module_id
          /\ m.course_id # reqOut.path_params.course_id
          /\ db_course_exists(reqOut.before, m.course_id)

\* C26: PUT and DELETE on courses/{course_id}/modules/{module_id}
\* change or remove the module only when it belongs to course course_id; when
\* it belongs to a different existing course the request is answered 404 and
\* the module is left unchanged, as the GET on the same path does.  (A PUT
\* whose body is refused, 400 or 500, is not what the statement is about.)
C26_ModuleScopedToCourse ==
    (ForeignModule /\ reqOut.status \notin {400, 500}) =>
        /\ reqOut.status = 404
        /\ db.modules = reqOut.before.modules

(***************************************************************************)
(* Deleting a user: delete_user_handler and db_delete_user.                *)
(***************************************************************************)
\* DELETE FROM users WHERE user_id = %s OR email = %s, with the argument and
\* its lower-case form
db_delete_user(d, user_id_or_email) ==
    LET hit(r) == r.user_id = user_id_or_email \/ r.email = Lower(user_id_or_email)
    IN  [db |-> [d EXCEPT !.users = SelectSeq(@, LAMBDA r : ~hit(r))],
         deleted |-> \E r \in Range(d.users) : hit(r)]

delete_user_handler(d, path_params) ==
    LET user_id == path_params.user_id
        del == db_delete_user(d, user_id)
    IN  IF ~Truthy(user_id) THEN Out(d, 400, "User ID is required")
        ELSE IF ~del.deleted THEN Out(del.db, 404, "User not found")
        ELSE Out(del.db, 200, None)

\* the {user_id} segments of the requests
UserIdSegments ==
    {UserIds[1], UserIds[2], UserIds[3], "zz", "bob@x", "cy@x", "Ann@X"}

\* DELETE users/{user_id}
DeleteUser ==
    /\ Building
    /\ \E user_id \in UserIdSegments :
          LET out == delete_user_handler(db, [user_id |-> user_id])
          IN  /\ db' = out.db
              /\ reqOut' = [kind |-> "delete_user", user_id |-> user_id,
                            status |-> out.status, error |-> out.error,
                            before |-> db]
    /\ UNCHANGED <<routes, event, resp, authIn, authOut, listOut, walk, updOut, conns, call, procs, mail, createOut>>

UserDeleteNext ==
    \/ CreateUser
    \/ DeleteUser

UserDeleteSpec == DataInit /\ [][UserDeleteNext]_vars

\* C27: DELETE users/{user_id} removes at most the one user whose
\* user_id equals the path parameter; every user row with a different user_id
\* is left unchanged, whatever string the path parameter is.
C27_DeleteUserOnlyThatUser ==
    reqOut.kind = "delete_user" =>
        \A r \in Range(reqOut.before.users) :
            r.user_id # reqOut.user_id => r \in Range(db.users)

(***************************************************************************)
(* Deleting a student: delete_student_handler looks the student up with    *)
(* db_get_student_by_id and then calls db_delete_student, each on its own  *)
(* connection; two requests are taken step by step.                        *)
(***************************************************************************)
db_get_student_by_id(d, student_id) ==
    LET found == {r \in Range(d.students) : r.student_id = student_id}
    IN  IF found = {} THEN Nothing ELSE Some(CHOOSE r \in found : TRUE)

\* DELETE FROM students WHERE student_id = %s; rowcount > 0
db_delete_student(d, student_id) ==
    [db |-> [d EXCEPT !.students = SelectSeq(@, LAMBDA r : r.student_id # student_id)],
     deleted |-> \E r \in Range(d.students) : r.student_id = student_id]

\* the {student_id} segments of the requests
StudentIdSegments ==
    {StudentIds[1], StudentIds[2], "zz"}

\* both DELETE students/{student_id} requests arrive
StartDeletes ==
    /\ Building
    /\ \E s1 \in StudentIdSegments, s2 \in StudentIdSegments :
        procs' = [p \in Requesters |->
                    [op |-> "delete_student", pc |-> "start",
                     body |-> [student_id |-> JStr(IF p = "r1" THEN s1 ELSE s2)],
                     suffix |-> 0, status |-> 0]]
    /\ reqOut' = [kind |-> "delete_students", before |-> db]
    /\ UNCHANGED <<routes, event, resp, authIn, authOut, db, listOut, walk, updOut, conns, call, mail, createOut>>

\* delete_student_handler up to the lookup: 400, 404, or on to the delete
LookupStep ==
    \E p \in Requesters :
        /\ procs[p].op = "delete_student" /\ procs[p].pc = "start"
        /\ LET student_id == procs[p].body.student_id.s
               student == db_get_student_by_id(db, student_id)
           IN  procs' = [procs EXCEPT ![p] =
                            IF ~Truthy(student_id)
                            THEN [@ EXCEPT !.pc = "done", !.status = 400]
                            ELSE IF student = Nothing
                            THEN [@ EXCEPT !.pc = "done", !.status = 404]
                            ELSE [@ EXCEPT !.pc = "checked"]]
        /\ UNCHANGED <<routes, event, resp, authIn, authOut, db, listOut, walk, updOut, conns, call, mail, createOut, reqOut>>

\* delete_student_handler from the delete on: 200, or 500 when no row went
DeleteStep ==
    \E p \in Requesters :
        /\ procs[p].op = "delete_student" /\ procs[p].pc = "checked"
        /\ LET del == db_delete_student(db, procs[p].body.student_id.s)
           IN  /\ db' = del.db
               /\ procs' = [procs EXCEPT ![p] =
                              [@ EXCEPT !.pc = "done",
                                        !.status = IF del.deleted THEN 200 ELSE 500]]
        /\ UNCHANGED <<routes, event, resp, authIn, authOut, listOut, walk, updOut, conns, call, mail, createOut, reqOut>>

DeleteRaceNext ==
    \/ CreateStudent
    \/ StartDeletes
    \/ LookupStep
    \/ DeleteStep

DeleteRaceSpec == DataInit /\ [][DeleteRaceNext]_vars

\* C28: when two DELETE students/{student_id} requests for the same
\* existing student interleave in any order of their existence check and
\* delete steps, the student row is removed once, one request returns 200 and
\* the other returns 404; neither returns 500.
C28_ConcurrentDeletesAnswered ==
    ( /\ reqOut.kind = "delete_students"
      /\ \A p \in Requesters : procs[p].pc = "done"
      /\ procs["r1"].body.student_id = procs["r2"].body.student_id
      /\ \E r \in Range(reqOut.before.students) :
            r.student_id = procs["r1"].body.student_id.s )
    =>  /\ {procs[p].status : p \in Requesters} = {200, 404}
        /\ \A r \in Range(db.students) : r.student_id # procs["r1"].body.student_id.s

(***************************************************************************)
(* Signing in: signin_handler, db_signin and create_token.                 *)
(***************************************************************************)
\* The hours a token is valid for.
TokenHours == 24

\* create_token: the payload with its expiry, signed with SECRET_KEY
create_token(payload, utcnow) ==
    [sub |-> payload.sub, email |-> payload.email, role |-> payload.role,
     exp |-> utcnow + TokenHours, key |-> "SECRET_KEY"]

\* db_get_user_by_email: the rows fetchone may return, None when none matches
db_get_user_by_email(d, email) ==
    LET found == {r \in Range(d.users) : r.email = StripS(Lower(email))}
    IN  IF found = {} THEN {Nothing} ELSE {Some(r) : r \in found}

\* db_signin with the row db_get_user_by_email returned
db_signin(user, password) ==
    IF user = Nothing \/ ~verify_password(password, user[1].password_hash)
    THEN Nothing
    ELSE Some([user_id |-> user[1].user_id, email |-> user[1].email,
               full_name |-> user[1].full_name, role |-> user[1].role,
               status |-> user[1].status])

SignedIn(status, error, token) ==
    [status |-> status, error |-> error, token |-> token]

\* signin_handler, row being what the lookup of the email returns
signin_handler(d, body, row) ==
    LET je == BodyGet(body, "email", JStr(""))
        jp == BodyGet(body, "password", JStr(""))
        email == StripS(Lower(je.s))
        user == db_signin(row, jp.s)
    IN  IF je.t # "str" THEN SignedIn(500, "Internal server error", Nothing)
        ELSE IF ~Truthy(email) \/ ~Truthy(jp.s)
        THEN SignedIn(400, "Email and password are required", Nothing)
        ELSE IF user = Nothing THEN SignedIn(401, "Invalid credentials", Nothing)
        ELSE IF user[1].status # "Active"
        THEN SignedIn(403, "Account is inactive", Nothing)
        ELSE SignedIn(200, None,
                      Some(create_token([sub |-> user[1].user_id,
                                         email |-> user[1].email,
                                         role |-> user[1].role], NowIso(d))))

SigninBodies ==
    { <<>>,
      [email |-> JNull, password |-> JStr("pw1")],
      [email |-> JStr("ann@x"), password |-> JNull],
      [email |-> JStr("zed@x"), password |-> JStr("pw1")] }
    \cup [email : {JStr(" Ann@X "), JStr("bob@x")},
          password : {JStr("pw1"), JStr("pw2"), JStr("bad")}]

\* POST /signin
Signin ==
    /\ reqOut.kind = "pending"
    /\ \E body \in SigninBodies :
       \E row \in db_get_user_by_email(db, StripS(Lower(BodyGet(body, "email", JStr("")).s))) :
          LET out == signin_handler(db, body, row)
          IN  reqOut' = [kind |-> "signin", body |-> body, status |-> out.status,
                         error |-> out.error, token |-> out.token]
    /\ UNCHANGED <<routes, event, resp, authIn, authOut, db, listOut, walk, updOut, conns, call, procs, mail, createOut>>

SigninNext ==
    \/ CreateUser
    \/ UpdateUser
    \/ Signin

SigninSpec == DataInit /\ [][SigninNext]_vars

RouterInit ==
    /\ routes \in RouteTables
    /\ event \in Events
    /\ resp = NoResp
    /\ authIn = NoAuthIn
    /\ authOut = NoAuthOut
    /\ db = EmptyDb
    /\ listOut = NoList
    /\ walk = NoWalk
    /\ updOut = NoUpd
    /\ conns = NoConns
    /\ call = NoCall0
    /\ procs = NoProcs
    /\ mail = NoMail
    /\ createOut = NoCreate
    /\ reqOut = NoReq

HandleRequest ==
    /\ resp.kind = "pending"
    /\ resp' = lambda_handler(routes, event)
    /\ UNCHANGED <<routes, event, authIn, authOut, db, listOut, walk, updOut, conns, call, procs, mail, createOut, reqOut>>

RouterNext == HandleRequest

RouterSpec == RouterInit /\ [][RouterNext]_vars


(***************************************************************************)
(* The shipped tables under every request: each method the tables name,    *)
(* and every path of up to MaxSegments segments, the first a base segment  *)
(* of the tables or another word, the later ones the literals of the       *)
(* patterns, another word or the empty segment.                            *)
(***************************************************************************)
MaxSegments == 4

TableMethods == {"GET", "PUT", "DELETE", "POST"}

FirstSegments ==
    {"login", "users", "students", "lessons", "courses", "enrollments", "batches", "x"}

LaterSegments ==
    {"details", "modules", "batches", "thumbnail", "resource", "video",
     "upload-url", "students", "student", "x", ""}

RECURSIVE TablePaths(_)
TablePaths(n) ==
    IF n = 1 THEN {<<f>> : f \in FirstSegments}
    ELSE LET shorter == TablePaths(n - 1)
         IN  shorter \cup {q \o <<"/">> \o (IF c = "" THEN <<>> ELSE <<c>>) :
                              q \in shorter, c \in LaterSegments}

TableEvents ==
    [httpMethod : TableMethods, path : TablePaths(MaxSegments), body : {"object"},
     headers : {<<>>}]

TableInit ==
    /\ routes = ShippedRoutes
    /\ event \in TableEvents
    /\ resp = NoResp
    /\ authIn = NoAuthIn
    /\ authOut = NoAuthOut
    /\ db = EmptyDb
    /\ listOut = NoList
    /\ walk = NoWalk
    /\ updOut = NoUpd
    /\ conns = NoConns
    /\ call = NoCall0
    /\ procs = NoProcs
    /\ mail = NoMail
    /\ createOut = NoCreate
    /\ reqOut = NoReq

TableSpec == TableInit /\ [][RouterNext]_vars

\* the entries of the tables that match the request: the fixed route, and
\* the patterns by base segment and position in their method's list
MatchingEntries ==
    LET method == event.httpMethod
        path   == Strip(event.path)
        hits(b) == LET method_routes == MethodRoutes(routes, b, method)
                   IN  {i \in 1..Len(method_routes) :
                           Match(method_routes[i].pattern, path)}
    IN  (IF <<method, path>> \in DOMAIN routes.fixed THEN {<<"fixed", 0>>} ELSE {})
        \cup UNION {{<<b[1], i>> : i \in hits(b)} : b \in DOMAIN routes.param}

\* C30: in the shipped route tables at most one entry matches any
\* (method, normalized path): no path matches both a fixed route and a
\* parameterized pattern, and no path matches two patterns, so the handler
\* the router selects is that of the one matching entry whatever the
\* registration order of the patterns.
C30_ShippedTablesUnambiguous ==
    resp.kind # "pending" =>
        LET entries == MatchingEntries
        IN  /\ Cardinality(entries) <= 1
            /\ resp.kind = "handler" =>
                  \E e \in entries :
                     resp.handler =
                        IF e[1] = "fixed"
                        THEN routes.fixed[<<event.httpMethod, Strip(event.path)>>].handler
                        ELSE routes.param[<<e[1]>>][event.httpMethod][e[2]].handler
            /\ (resp.kind = "response" /\ resp.status = 404) => entries = {}

\* a four-segment path matched one pattern of a list of four and the router
\* called its handler
C30_Witness ==
    /\ resp.kind = "handler"
    /\ resp.handler = "get_module_with_lessons_handler"
    /\ Cardinality(MatchingEntries) = 1
    /\ Len(MethodRoutes(routes, <<"courses">>, event.httpMethod)) = 4

(***************************************************************************)
(* The auth gate's specification: one call of authorize.                   *)
(***************************************************************************)
AuthInit ==
    /\ authIn \in [headers : HeaderMaps, allowed_roles : SUBSET Roles]
    /\ authOut = NoAuthOut
    /\ routes = ShippedRoutes
    /\ event = NoEvent
    /\ resp = NoResp
    /\ db = EmptyDb
    /\ listOut = NoList
    /\ walk = NoWalk
    /\ updOut = NoUpd
    /\ conns = NoConns
    /\ call = NoCall0
    /\ procs = NoProcs
    /\ mail = NoMail
    /\ createOut = NoCreate
    /\ reqOut = NoReq

Authorize ==
    /\ authOut.err = "pending"
    /\ authOut' = authorize(authIn.headers, authIn.allowed_roles)
    /\ UNCHANGED <<authIn, routes, event, resp, db, listOut, walk, updOut, conns, call, procs, mail, createOut, reqOut>>

AuthNext == Authorize

AuthSpec == AuthInit /\ [][AuthNext]_vars

=============================================================================
